---------------------------- MODULE Spec2Model ----------------------------
(***************************************************************************)
(* Model of the hybrid Grid + DCA trading core:                            *)
(*   - HybridStrategyEngine (src/src/strategies/hybrid_strategy_engine.py) *)
(*   - HybridBacktester     (src/run_backtest.py)                          *)
(*   - HybridTradingBot     (src/main.py) with Portfolio                   *)
(*                           (src/src/core/portfolio.py)                   *)
(*                                                                         *)
(* Fixed-point units.  Prices are in cents (1/100), quantities in 1/100,   *)
(* money (cash, equity, notional) in 1/10000, so price * quantity is a     *)
(* money amount without rescaling.  Percentages that the code compares     *)
(* as floats are compared here by cross-multiplication, which is exact.    *)
(* Timestamps are seconds; a calendar date is the day number ts \div 86400.*)
(* A Python None in an Optional numeric field is the value None (-1).      *)
(***************************************************************************)
EXTENDS Integers, Sequences, FiniteSets, TLC

(***************************************************************************)
(* Policy defaults, HybridStrategyEngine._load_config                      *)
(***************************************************************************)
None == -1

use_dynamic_spread == TRUE
\* spreads are in 1/1000 of a percent
fixed_spread_pct == 500
\* ATR% thresholds and inputs are in 1/10 of a percent
band_near_threshold == 10
band_mid_threshold == 20
spread_near_pct == 300
spread_mid_pct == 500
spread_far_pct == 800
rsi_adjust_enabled == TRUE
\* rsi_adjust_factor 0.1, in 1/1000
rsi_adjust_factor == 100
grid_enabled == TRUE
grid_levels_per_side == 3
\* whole percent
grid_kill_replace_threshold_pct == 1
grid_min_seconds_between == 300
dca_enabled == TRUE
dca_rsi_threshold == 35
dca_use_ema_gate == TRUE
dca_cooldown_bars == 5
\* whole percent
dca_min_distance_from_last_fill_pct == 1
\* 0.1 percent, in 1/10 of a percent
dca_price_offset_pct == 1
tp_enabled == TRUE
tp_rsi_threshold == 65
\* TP spreads in 1/10 of a percent
tp_spread_near_pct == 5
tp_spread_mid_pct == 8
tp_spread_far_pct == 12
\* gate and stop thresholds, whole percent
gate_degraded_gap_pct == -3
gate_paused_gap_pct == -5
gate_degraded_daily_pnl_pct == -2
gate_paused_daily_pnl_pct == -4
hard_stop_daily_pnl_pct == -5
hard_stop_gap_pct == -8
\* bar_timeframe '1m' parsed by _parse_timeframe_to_seconds
bar_seconds == 60
auto_resume_enabled == TRUE
resume_rsi_threshold == 40
resume_price_recovery_pct == 2
resume_cooldown_bars == 60

SecondsPerDay == 86400

(***************************************************************************)
(* Small helpers                                                           *)
(***************************************************************************)
Abs(x) == IF x < 0 THEN 0 - x ELSE x

Max2(a, b) == IF a > b THEN a ELSE b

Min2(a, b) == IF a < b THEN a ELSE b

\* timestamp.strftime('%Y-%m-%d'): the calendar date of a timestamp
DateOf(ts) == ts \div SecondsPerDay

(***************************************************************************)
(* HybridStrategyEngine state after __init__ / _load_config                *)
(***************************************************************************)
EngineInit ==
  [ last_grid_ref_price |-> None,
    last_grid_timestamp |-> None,
    last_dca_timestamp  |-> None,
    last_dca_fill_price |-> None,
    open_price_day      |-> None,
    equity_open         |-> None,
    last_date           |-> None,
    hard_stop_active    |-> FALSE,
    hard_stop_timestamp |-> None,
    hard_stop_price     |-> None,
    hard_stop_reason    |-> "None" ]

\* _get_technical_signals: None when latest() is None or a required field is
\* missing; sig.avail is FALSE in exactly those cases
GetTechnicalSignals(sig) == sig.avail

(***************************************************************************)
(* _compute_band_and_spread                                                *)
(***************************************************************************)
BandOf(sig) ==
  IF sig.atr_pct < band_near_threshold THEN "near"
  ELSE IF sig.atr_pct < band_mid_threshold THEN "mid"
  ELSE "far"

BaseSpread(band) ==
  IF band = "near" THEN spread_near_pct
  ELSE IF band = "mid" THEN spread_mid_pct
  ELSE spread_far_pct

RsiFactor(sig) ==
  IF sig.rsi < 30 THEN 1000 - rsi_adjust_factor
  ELSE IF sig.rsi > 70 THEN 1000 + rsi_adjust_factor
  ELSE 1000

ComputeBandAndSpread(sig) ==
  IF ~use_dynamic_spread
  THEN [band |-> "mid", spread_pct |-> fixed_spread_pct]
  ELSE LET band == BandOf(sig)
           raw  == IF rsi_adjust_enabled
                   THEN (BaseSpread(band) * RsiFactor(sig)) \div 1000
                   ELSE BaseSpread(band)
       IN [band |-> band, spread_pct |-> Max2(100, Min2(2000, raw))]

\* the policy the engine was built with, as _load_config reads it
PolicyCfg ==
  [use_dynamic_spread  |-> use_dynamic_spread,
   fixed_spread_pct    |-> fixed_spread_pct,
   band_near_threshold |-> band_near_threshold,
   band_mid_threshold  |-> band_mid_threshold,
   spread_near_pct     |-> spread_near_pct,
   spread_mid_pct      |-> spread_mid_pct,
   spread_far_pct      |-> spread_far_pct,
   rsi_adjust_enabled  |-> rsi_adjust_enabled,
   rsi_adjust_factor   |-> rsi_adjust_factor]

\* mutant of ComputeBandAndSpreadWith: the spread is not clamped
ComputeBandAndSpreadWith_NoClamp(cfg, sig) ==
  IF ~cfg.use_dynamic_spread
  THEN [band |-> "mid", spread_pct |-> cfg.fixed_spread_pct]
  ELSE LET band == IF sig.atr_pct < cfg.band_near_threshold THEN "near"
                   ELSE IF sig.atr_pct < cfg.band_mid_threshold THEN "mid"
                   ELSE "far"
           base_spread == IF band = "near" THEN cfg.spread_near_pct
                          ELSE IF band = "mid" THEN cfg.spread_mid_pct
                          ELSE cfg.spread_far_pct
           rsi_factor == IF sig.rsi < 30 THEN 1000 - cfg.rsi_adjust_factor
                         ELSE IF sig.rsi > 70 THEN 1000 + cfg.rsi_adjust_factor
                         ELSE 1000
       IN [band |-> band,
           spread_pct |-> IF cfg.rsi_adjust_enabled
                          THEN (base_spread * rsi_factor) \div 1000
                          ELSE base_spread]

\* _compute_band_and_spread of an engine built with the policy cfg
ComputeBandAndSpreadWith(cfg, sig) ==
  IF ~cfg.use_dynamic_spread
  THEN [band |-> "mid", spread_pct |-> cfg.fixed_spread_pct]
  ELSE LET band == IF sig.atr_pct < cfg.band_near_threshold THEN "near"
                   ELSE IF sig.atr_pct < cfg.band_mid_threshold THEN "mid"
                   ELSE "far"
           base_spread == IF band = "near" THEN cfg.spread_near_pct
                          ELSE IF band = "mid" THEN cfg.spread_mid_pct
                          ELSE cfg.spread_far_pct
           rsi_factor == IF sig.rsi < 30 THEN 1000 - cfg.rsi_adjust_factor
                         ELSE IF sig.rsi > 70 THEN 1000 + cfg.rsi_adjust_factor
                         ELSE 1000
           spread_pct == IF cfg.rsi_adjust_enabled
                         THEN (base_spread * rsi_factor) \div 1000
                         ELSE base_spread
       IN [band |-> band, spread_pct |-> Max2(100, Min2(2000, spread_pct))]

\* mutation of _can_resume: the cooldown is not waited for
CanResume_NoCooldown(e, ts, current_price, sig) ==
  IF ~e.hard_stop_active \/ e.hard_stop_timestamp = None THEN FALSE
  ELSE IF ~sig.avail THEN FALSE
  ELSE IF sig.rsi <= resume_rsi_threshold THEN FALSE
  ELSE IF e.hard_stop_price # None /\ e.hard_stop_price > 0
          /\ (current_price - e.hard_stop_price) * 100
               < resume_price_recovery_pct * e.hard_stop_price THEN FALSE
  ELSE TRUE

(***************************************************************************)
(* _can_resume                                                             *)
(***************************************************************************)
CanResume(e, ts, current_price, sig) ==
  IF ~e.hard_stop_active \/ e.hard_stop_timestamp = None THEN FALSE
  ELSE IF ~sig.avail THEN FALSE
  ELSE IF (ts - e.hard_stop_timestamp) < resume_cooldown_bars * bar_seconds THEN FALSE
  ELSE IF sig.rsi <= resume_rsi_threshold THEN FALSE
  ELSE IF e.hard_stop_price # None /\ e.hard_stop_price > 0
          /\ (current_price - e.hard_stop_price) * 100
               < resume_price_recovery_pct * e.hard_stop_price THEN FALSE
  ELSE TRUE

(***************************************************************************)
(* _activate_hard_stop                                                     *)
(***************************************************************************)
ActivateHardStop(e, ts, price, reason) ==
  [e EXCEPT !.hard_stop_active = TRUE,
            !.hard_stop_timestamp = ts,
            !.hard_stop_price = price,
            !.hard_stop_reason = reason]

\* mutant of RollDay: the anchors are taken again on every bar
RollDay_EveryBar(e, ts, equity, ref_price) ==
  [e EXCEPT !.open_price_day = ref_price,
            !.equity_open = equity,
            !.last_date = DateOf(ts)]

(***************************************************************************)
(* _evaluate_gate_and_sl                                                   *)
(***************************************************************************)
\* the daily anchors: reset on the first bar of a new calendar date
RollDay(e, ts, equity, ref_price) ==
  IF e.last_date # DateOf(ts)
  THEN [e EXCEPT !.open_price_day = ref_price,
                 !.equity_open = equity,
                 !.last_date = DateOf(ts)]
  ELSE e

\* gap_pct <= t, with gap_pct = 0.0 when the anchor is undefined
GapPctLe(e, ref_price, t) ==
  IF e.open_price_day # None /\ e.open_price_day > 0
  THEN (ref_price - e.open_price_day) * 100 <= t * e.open_price_day
  ELSE 0 <= t

\* daily_pnl_pct <= t, with daily_pnl_pct = 0.0 when the anchor is undefined
DailyPnlPctLe(e, equity, t) ==
  IF e.equity_open # None /\ e.equity_open > 0
  THEN (equity - e.equity_open) * 100 <= t * e.equity_open
  ELSE 0 <= t

ClearHardStop(e) ==
  [e EXCEPT !.hard_stop_active = FALSE,
            !.hard_stop_timestamp = None,
            !.hard_stop_price = None,
            !.hard_stop_reason = "None"]

\* mutation of the gate classification: the gap is not looked at
GateClass_PnlOnly(e, equity, ref_price) ==
  IF DailyPnlPctLe(e, equity, gate_paused_daily_pnl_pct) THEN "PAUSED"
  ELSE IF DailyPnlPctLe(e, equity, gate_degraded_daily_pnl_pct) THEN "DEGRADED"
  ELSE "RUN"

GateClass(e, equity, ref_price) ==
  IF DailyPnlPctLe(e, equity, gate_paused_daily_pnl_pct)
     \/ GapPctLe(e, ref_price, gate_paused_gap_pct) THEN "PAUSED"
  ELSE IF DailyPnlPctLe(e, equity, gate_degraded_daily_pnl_pct)
          \/ GapPctLe(e, ref_price, gate_degraded_gap_pct) THEN "DEGRADED"
  ELSE "RUN"

\* mutation of the hard-stop check: a gap breach does not latch
HardStopCheck_NoGap(e, ts, equity, ref_price) ==
  IF DailyPnlPctLe(e, equity, hard_stop_daily_pnl_pct)
  THEN [eng  |-> ActivateHardStop(e, ts, ref_price, "Daily PnL"),
        gate |-> "PAUSED",
        sl   |-> [stop |-> TRUE, reason |-> <<"Daily PnL">>]]
  ELSE [eng  |-> e,
        gate |-> GateClass(e, equity, ref_price),
        sl   |-> [stop |-> FALSE, reason |-> <<>>]]

\* the part of _evaluate_gate_and_sl after the latched-stop block
HardStopCheck(e, ts, equity, ref_price) ==
  IF DailyPnlPctLe(e, equity, hard_stop_daily_pnl_pct)
  THEN [eng  |-> ActivateHardStop(e, ts, ref_price, "Daily PnL"),
        gate |-> "PAUSED",
        sl   |-> [stop |-> TRUE, reason |-> <<"Daily PnL">>]]
  ELSE IF GapPctLe(e, ref_price, hard_stop_gap_pct)
  THEN [eng  |-> ActivateHardStop(e, ts, ref_price, "Gap"),
        gate |-> "PAUSED",
        sl   |-> [stop |-> TRUE, reason |-> <<"Gap">>]]
  ELSE [eng  |-> e,
        gate |-> GateClass(e, equity, ref_price),
        sl   |-> [stop |-> FALSE, reason |-> <<>>]]

\* mutant of _evaluate_gate_and_sl: a latched stop that cannot resume is
\* checked against the thresholds again
EvaluateGateAndSl_Relatch(e, ts, equity, ref_price, sig) ==
  LET Evaluate(e1) ==
        IF e1.hard_stop_active /\ auto_resume_enabled /\ CanResume(e1, ts, ref_price, sig)
        THEN HardStopCheck(ClearHardStop(e1), ts, equity, ref_price)
        ELSE IF e1.hard_stop_active /\ ~HardStopCheck(e1, ts, equity, ref_price).sl.stop
        THEN [eng  |-> e1,
              gate |-> "PAUSED",
              sl   |-> [stop |-> TRUE,
                        reason |-> <<"Hard stop active", e1.hard_stop_reason>>]]
        ELSE HardStopCheck(e1, ts, equity, ref_price)
  IN Evaluate(RollDay(e, ts, equity, ref_price))

EvaluateGateAndSl(e, ts, equity, ref_price, sig) ==
  LET Evaluate(e1) ==
        IF e1.hard_stop_active
        THEN IF auto_resume_enabled /\ CanResume(e1, ts, ref_price, sig)
             THEN HardStopCheck(ClearHardStop(e1), ts, equity, ref_price)
             ELSE [eng  |-> e1,
                   gate |-> "PAUSED",
                   sl   |-> [stop |-> TRUE,
                             reason |-> <<"Hard stop active", e1.hard_stop_reason>>]]
        ELSE HardStopCheck(e1, ts, equity, ref_price)
  IN Evaluate(RollDay(e, ts, equity, ref_price))


(***************************************************************************)
(* Orders and tags.  A tag f'grid_buy_{i}' is [kind |-> "grid_buy", n |-> i],*)
(* f'dca_rsi{rsi:.0f}' is [kind |-> "dca_rsi", n |-> rsi] and               *)
(* f'tp_rsi{rsi:.0f}_band{band}' is [kind |-> "tp_rsi", n |-> rsi, band].   *)
(***************************************************************************)
Tag(kind, n, band) == [kind |-> kind, n |-> n, band |-> band]

\* 'grid' in tag.lower()
IsGridTag(tag) == tag.kind \in {"grid_buy", "grid_sell"}

\* 'dca' in tag.lower()
IsDcaTag(tag) == tag.kind = "dca_rsi"

(***************************************************************************)
(* _plan_grid                                                              *)
(***************************************************************************)
GridBuyPrice(ref_price, spread_pct, i) ==
  (ref_price * (100000 - spread_pct * i)) \div 100000

GridSellPrice(ref_price, spread_pct, i) ==
  (ref_price * (100000 + spread_pct * i)) \div 100000

\* mutant of GridLevels: every SELL level is priced like the first one
GridLevels_FlatSell(ref_price, spread_pct) ==
  [k \in 1..(2 * grid_levels_per_side) |->
     IF k % 2 = 1
     THEN [side  |-> "BUY",
           price |-> GridBuyPrice(ref_price, spread_pct, (k + 1) \div 2),
           tag   |-> Tag("grid_buy", (k + 1) \div 2, "")]
     ELSE [side  |-> "SELL",
           price |-> GridSellPrice(ref_price, spread_pct, 1),
           tag   |-> Tag("grid_sell", k \div 2, "")]]

GridLevels(ref_price, spread_pct) ==
  [k \in 1..(2 * grid_levels_per_side) |->
     IF k % 2 = 1
     THEN [side  |-> "BUY",
           price |-> GridBuyPrice(ref_price, spread_pct, (k + 1) \div 2),
           tag   |-> Tag("grid_buy", (k + 1) \div 2, "")]
     ELSE [side  |-> "SELL",
           price |-> GridSellPrice(ref_price, spread_pct, k \div 2),
           tag   |-> Tag("grid_sell", k \div 2, "")]]

KillReplace(e, ref_price) ==
  /\ e.last_grid_ref_price # None
  /\ Abs(ref_price - e.last_grid_ref_price) * 100
       > grid_kill_replace_threshold_pct * e.last_grid_ref_price

\* mutation of the grid cooldown: it holds a replacement back too
GridCooldownActive_IgnoresKill(e, ts, kill) ==
  /\ e.last_grid_timestamp # None
  /\ (ts - e.last_grid_timestamp) < grid_min_seconds_between

GridCooldownActive(e, ts, kill) ==
  /\ e.last_grid_timestamp # None
  /\ ~kill
  /\ (ts - e.last_grid_timestamp) < grid_min_seconds_between

\* mutation of _plan_grid: a bar held back by the cooldown restarts the cooldown
PlanGrid_StampOnCooldown(e, ref_price, spread_pct, ts) ==
  LET kill == KillReplace(e, ref_price)
  IN IF GridCooldownActive(e, ts, kill)
     THEN [eng |-> [e EXCEPT !.last_grid_timestamp = ts],
           grid_orders |-> <<>>, kill_replace |-> FALSE]
     ELSE [eng |-> [e EXCEPT !.last_grid_ref_price = ref_price,
                             !.last_grid_timestamp = ts],
           grid_orders  |-> GridLevels(ref_price, spread_pct),
           kill_replace |-> kill]

PlanGrid(e, ref_price, spread_pct, ts) ==
  LET kill == KillReplace(e, ref_price)
  IN IF GridCooldownActive(e, ts, kill)
     THEN [eng |-> e, grid_orders |-> <<>>, kill_replace |-> FALSE]
     ELSE LET orders == GridLevels(ref_price, spread_pct)
          IN [eng |-> IF orders # <<>> \/ kill
                      THEN [e EXCEPT !.last_grid_ref_price = ref_price,
                                     !.last_grid_timestamp = ts]
                      ELSE e,
              grid_orders  |-> orders,
              kill_replace |-> kill]

(***************************************************************************)
(* _plan_dca                                                               *)
(***************************************************************************)
\* mutation of the DCA conditions: the cooldown is not waited for
DcaFires_NoCooldown(e, ref_price, sig, ts) ==
  /\ ~(sig.rsi >= dca_rsi_threshold)
  /\ ~(dca_use_ema_gate /\ ref_price >= sig.ema_fast)
  /\ ~(/\ e.last_dca_fill_price # None
       /\ Abs(ref_price - e.last_dca_fill_price) * 100
            < dca_min_distance_from_last_fill_pct * e.last_dca_fill_price)

DcaFires(e, ref_price, sig, ts) ==
  /\ ~(sig.rsi >= dca_rsi_threshold)
  /\ ~(dca_use_ema_gate /\ ref_price >= sig.ema_fast)
  /\ ~(/\ e.last_dca_timestamp # None
       /\ (ts - e.last_dca_timestamp) < dca_cooldown_bars * bar_seconds)
  /\ ~(/\ e.last_dca_fill_price # None
       /\ Abs(ref_price - e.last_dca_fill_price) * 100
            < dca_min_distance_from_last_fill_pct * e.last_dca_fill_price)

PlanDca(e, ref_price, sig, ts) ==
  IF DcaFires(e, ref_price, sig, ts)
  THEN [eng |-> [e EXCEPT !.last_dca_timestamp = ts],
        dca_orders |-> << [side  |-> "BUY",
                           price |-> (ref_price * (1000 - dca_price_offset_pct)) \div 1000,
                           tag   |-> Tag("dca_rsi", sig.rsi, "")] >>]
  ELSE [eng |-> e, dca_orders |-> <<>>]

(***************************************************************************)
(* _plan_tp                                                                *)
(***************************************************************************)
TpSpread(band) ==
  IF band = "near" THEN tp_spread_near_pct
  ELSE IF band = "mid" THEN tp_spread_mid_pct
  ELSE tp_spread_far_pct

PlanTp(ref_price, sig, band) ==
  IF sig.rsi < tp_rsi_threshold \/ ref_price < sig.ema_fast
  THEN <<>>
  ELSE << [side  |-> "SELL",
           price |-> (ref_price * (1000 + TpSpread(band))) \div 1000,
           tag   |-> Tag("tp_rsi", sig.rsi, band)] >>

(***************************************************************************)
(* on_bar                                                                  *)
(***************************************************************************)
DefaultPlan(close) ==
  [ pnl_gate_state |-> "RUN",
    sl_action      |-> [stop |-> FALSE, reason |-> <<>>],
    grid_orders    |-> <<>>,
    dca_orders     |-> <<>>,
    tp_orders      |-> <<>>,
    band           |-> "mid",
    spread_pct     |-> fixed_spread_pct,
    ref_price      |-> close,
    kill_replace   |-> FALSE ]

\* mutation of the order planning: TP orders are planned in PAUSED too
PlanOrders_TpWhenPaused(e, gate_state, ref_price, bs, sig, ts) ==
  LET g  == IF gate_state = "RUN" /\ grid_enabled
            THEN PlanGrid(e, ref_price, bs.spread_pct, ts)
            ELSE [eng |-> e, grid_orders |-> <<>>, kill_replace |-> FALSE]
      d  == IF gate_state \in {"RUN", "DEGRADED"} /\ dca_enabled
            THEN PlanDca(g.eng, ref_price, sig, ts)
            ELSE [eng |-> g.eng, dca_orders |-> <<>>]
  IN [eng |-> d.eng, grid_orders |-> g.grid_orders, kill_replace |-> g.kill_replace,
      dca_orders |-> d.dca_orders, tp_orders |-> PlanTp(ref_price, sig, bs.band)]

\* mutation of the order planning: the grid is planned in DEGRADED too
PlanOrders_GridWhenDegraded(e, gate_state, ref_price, bs, sig, ts) ==
  LET g  == IF gate_state \in {"RUN", "DEGRADED"} /\ grid_enabled
            THEN PlanGrid(e, ref_price, bs.spread_pct, ts)
            ELSE [eng |-> e, grid_orders |-> <<>>, kill_replace |-> FALSE]
      d  == IF gate_state \in {"RUN", "DEGRADED"} /\ dca_enabled
            THEN PlanDca(g.eng, ref_price, sig, ts)
            ELSE [eng |-> g.eng, dca_orders |-> <<>>]
      tp == IF gate_state \in {"RUN", "DEGRADED"} /\ tp_enabled
            THEN PlanTp(ref_price, sig, bs.band) ELSE <<>>
  IN [eng |-> d.eng, grid_orders |-> g.grid_orders, kill_replace |-> g.kill_replace,
      dca_orders |-> d.dca_orders, tp_orders |-> tp]

\* the order planning of on_bar once the gate state is known and no stop is set
PlanOrders(e, gate_state, ref_price, bs, sig, ts) ==
  LET doGrid == gate_state = "RUN" /\ grid_enabled
      doRest == gate_state \in {"RUN", "DEGRADED"}
      tp == IF doRest /\ tp_enabled THEN PlanTp(ref_price, sig, bs.band)
            ELSE <<>>
      AfterDca(g, d) ==
        [eng |-> d.eng, grid_orders |-> g.grid_orders, kill_replace |-> g.kill_replace,
         dca_orders |-> d.dca_orders, tp_orders |-> tp]
      AfterGrid(g) ==
        AfterDca(g, IF doRest /\ dca_enabled THEN PlanDca(g.eng, ref_price, sig, ts)
                    ELSE [eng |-> g.eng, dca_orders |-> <<>>])
  IN AfterGrid(IF doGrid THEN PlanGrid(e, ref_price, bs.spread_pct, ts)
               ELSE [eng |-> e, grid_orders |-> <<>>, kill_replace |-> FALSE])

OnBar(e, b, eq, sig) ==
  IF ~GetTechnicalSignals(sig)
  THEN [eng |-> e, plan |-> DefaultPlan(b.close)]
  ELSE LET ref_price == b.close
           Plan0(bs, g) ==
             [DefaultPlan(b.close) EXCEPT
                !.band = bs.band, !.spread_pct = bs.spread_pct,
                !.pnl_gate_state = g.gate, !.sl_action = g.sl]
           WithOrders(p0, o) ==
             [eng  |-> o.eng,
              plan |-> [p0 EXCEPT !.grid_orders = o.grid_orders,
                                  !.kill_replace = o.kill_replace,
                                  !.dca_orders = o.dca_orders,
                                  !.tp_orders = o.tp_orders]]
           WithGate(bs, g) ==
             IF g.sl.stop
             THEN [eng |-> g.eng, plan |-> Plan0(bs, g)]
             ELSE WithOrders(Plan0(bs, g),
                             PlanOrders(g.eng, g.gate, ref_price, bs, sig, b.timestamp))
       IN WithGate(ComputeBandAndSpread(sig),
                   EvaluateGateAndSl(e, b.timestamp, eq, ref_price, sig))

(***************************************************************************)
(* on_bar on a bar whose 'timestamp' is None: every use of the timestamp   *)
(* raises inside the try block of the method that makes it, and the except *)
(* clause of that method returns what it holds at that point               *)
(***************************************************************************)
\* _plan_grid: (timestamp - _last_grid_timestamp) raises TypeError when the
\* cooldown test is reached; the except returns ([], False)
PlanGridUnstamped(e, ref_price, spread_pct) ==
  LET kill == KillReplace(e, ref_price)
  IN IF e.last_grid_timestamp # None /\ ~kill
     THEN [eng |-> e, grid_orders |-> <<>>, kill_replace |-> FALSE]
     ELSE [eng |-> [e EXCEPT !.last_grid_ref_price = ref_price,
                             !.last_grid_timestamp = None],
           grid_orders  |-> GridLevels(ref_price, spread_pct),
           kill_replace |-> kill]

\* _plan_dca: (timestamp - _last_dca_timestamp) raises TypeError when the
\* cooldown test is reached; the except returns []
PlanDcaUnstamped(e, ref_price, sig) ==
  IF /\ ~(sig.rsi >= dca_rsi_threshold)
     /\ ~(dca_use_ema_gate /\ ref_price >= sig.ema_fast)
     /\ e.last_dca_timestamp = None
     /\ ~(/\ e.last_dca_fill_price # None
          /\ Abs(ref_price - e.last_dca_fill_price) * 100
               < dca_min_distance_from_last_fill_pct * e.last_dca_fill_price)
  THEN [eng |-> [e EXCEPT !.last_dca_timestamp = None],
        dca_orders |-> << [side  |-> "BUY",
                           price |-> (ref_price * (1000 - dca_price_offset_pct)) \div 1000,
                           tag   |-> Tag("dca_rsi", sig.rsi, "")] >>]
  ELSE [eng |-> e, dca_orders |-> <<>>]

\* on_bar: timestamp.strftime raises AttributeError in _evaluate_gate_and_sl
\* before any field is touched, whose except returns ("RUN", {"stop": False});
\* on_bar then plans as in RUN
OnBarUnstamped(e, b, eq, sig) ==
  IF ~GetTechnicalSignals(sig)
  THEN [eng |-> e, plan |-> DefaultPlan(b.close)]
  ELSE LET ref_price == b.close
           tp(bs) == IF tp_enabled THEN PlanTp(ref_price, sig, bs.band) ELSE <<>>
           WithDca(bs, g, d) ==
             [eng  |-> d.eng,
              plan |-> [DefaultPlan(b.close) EXCEPT
                          !.band = bs.band, !.spread_pct = bs.spread_pct,
                          !.grid_orders = g.grid_orders,
                          !.kill_replace = g.kill_replace,
                          !.dca_orders = d.dca_orders,
                          !.tp_orders = tp(bs)]]
           WithGrid(bs, g) ==
             WithDca(bs, g, IF dca_enabled THEN PlanDcaUnstamped(g.eng, ref_price, sig)
                            ELSE [eng |-> g.eng, dca_orders |-> <<>>])
           WithBand(bs) ==
             WithGrid(bs, IF grid_enabled
                          THEN PlanGridUnstamped(e, ref_price, bs.spread_pct)
                          ELSE [eng |-> e, grid_orders |-> <<>>, kill_replace |-> FALSE])
       IN WithBand(ComputeBandAndSpread(sig))

\* notify_dca_fill
NotifyDcaFill(e, fill_price) == [e EXCEPT !.last_dca_fill_price = fill_price]


(***************************************************************************)
(* Bounds and input domains of the model                                   *)
(***************************************************************************)
\* on_bar calls (bars, ticks) per run
MaxBars == 3

\* 23:57 of day 0, so that a date change is within reach
StartTime == SecondsPerDay - 180

\* close / ticker prices, in cents
Prices == {9200, 9500, 10000}

\* closes handed to on_bar by a direct caller: 101.00 is exactly
\* grid_kill_replace_threshold_pct above 100.00
UnitPrices == Prices \cup {10100}

\* equities handed to on_bar by a direct caller, in 1/10000
Equities == {9500000, 9600000, 9800000, 10000000}

Rsis == {25, 50, 72}

AtrPcts == {15}

Emas == {9600}

\* seconds between two on_bar calls of a direct caller, and between two ticks
Deltas == {60, 3600}

\* the oversold scenario also spaces two bars by exactly the DCA cooldown
\* (dca_cooldown_bars bars), which is grid_min_seconds_between as well
OversoldDeltas == Deltas \cup {dca_cooldown_bars * bar_seconds}

NoSignals == [avail |-> FALSE, rsi |-> 0, atr_pct |-> 0, ema_fast |-> 0]

Signals ==
  {NoSignals} \cup
  [avail : {TRUE}, rsi : Rsis, atr_pct : AtrPcts, ema_fast : Emas]

\* the bundles the backtest and the live loop run on: one that lets DCA fire
\* and one that lets TP fire
DriverSignals == {s \in Signals : s.avail /\ s.rsi \in {25, 72}}

\* the bundles of the oversold scenario: one below dca_rsi_threshold, one not
OversoldSignals == {s \in Signals : s.avail /\ s.rsi \in {25, 50}}

NoPlan == [DefaultPlan(0) EXCEPT !.pnl_gate_state = "NONE"]

NoBar == [timestamp |-> 0, close |-> 0, low |-> 0, high |-> 0]

\* half the high-low range of a backtest bar around its close
Wicks == {0, 100}

\* the traded pair and the strategy name under which positions are held
Symbol == "SOLUSDT"

\* starting capital of a run, 1000.00 in 1/10000
InitialCapital == 1000 * 10000

\* Portfolio position key f"{symbol}_{strategy}"
PositionKey(symbol, strategy) == symbol \o "_" \o strategy

NoPositions == [k \in {} |-> 0]

\* direct calls of open_position / close_position per run
MaxCalls == 3

Strategies == {"Hybrid", "Grid"}

Sides == {"LONG", "SHORT"}

\* quantities of the direct calls, in 1/100
Quantities == {300, 800}

\* entry and exit prices of the direct calls, in cents
CallPrices == {9500, 10000}

NoCall == [op |-> "none", symbol |-> "", strategy |-> "", side |-> "",
           quantity |-> 0, price |-> 0, ok |-> FALSE, pnl |-> 0, cash_before |-> 0]

\* a dict without one key (del d[key])
DelKey(d, key) == [k \in (DOMAIN d) \ {key} |-> d[k]]

\* a dict with d[key] = v
PutKey(d, key, v) == [k \in (DOMAIN d) \cup {key} |-> IF k = key THEN v ELSE d[k]]

\* no ticker was read yet
NoTick == [t1 |-> None, t2 |-> None]

\* the pairs of TRADING_SYMBOLS, in the order of self.symbols
Symbols == <<"BTCUSDT", "ETHUSDT">>

SymbolSet == {Symbols[i] : i \in 1..Len(Symbols)}

\* no call to the exchange failed
NoFailures == [ticker |-> {}, process |-> {}, fills |-> {}]

\* main has built the bot and installed the signal handlers; run is not yet
\* called.  _last_atr_pct is not an attribute yet.
BotInit ==
  [running |-> FALSE, pc |-> "main", signal_pc |-> "none",
   reports |-> 0, report_in_tick |-> FALSE,
   ticks |-> 0, started_after_stop |-> FALSE,
   failed |-> NoFailures, priced |-> {}, processed |-> {}, swept |-> {},
   reconciled |-> {}, last_atr_pct |-> None]

(***************************************************************************)
(* RiskManager, StrategyOrchestrator and Backtester: the circuit breaker.  *)
(* Times are wall-clock seconds (datetime.now()), PnL is in 1/10000.       *)
(***************************************************************************)
\* risk limits, in percent of the initial capital
max_daily_loss_pct == 2
max_weekly_loss_pct == 5

SecondsPerHour == 3600

\* entries a run executes at most
MaxEntries == 3

\* the wall clock is not followed beyond this many days after the start
MaxDays == 10

\* realised PnL of a closed position: -2.5 % or +1 % of the initial capital
ClosePnls == {-250000, 100000}

\* wall-clock time between two passes of the backtest loop
LoopDeltas == {12 * SecondsPerHour, 24 * SecondsPerHour}

WeekOf(ts) == DateOf(ts) \div 7

RiskInit ==
  [circuit_breaker_active |-> FALSE,
   circuit_breaker_until  |-> None,
   daily_pnl              |-> 0,
   weekly_pnl             |-> 0,
   last_daily_reset       |-> 0,
   last_weekly_reset      |-> 0,
   open                   |-> FALSE,
   entries                |-> 0,
   signals                |-> 0,
   parity                 |-> 0]

\* Portfolio.reset_daily_stats, reset_weekly_stats
ResetStats(r, t) ==
  LET Weekly(d) == IF WeekOf(t) # d.last_weekly_reset
                   THEN [d EXCEPT !.weekly_pnl = 0, !.last_weekly_reset = WeekOf(t)]
                   ELSE d
  IN Weekly(IF DateOf(t) > r.last_daily_reset
            THEN [r EXCEPT !.daily_pnl = 0, !.last_daily_reset = DateOf(t)]
            ELSE r)

ActivateCircuitBreaker(r, t, duration_hours) ==
  [r EXCEPT !.circuit_breaker_active = TRUE,
            !.circuit_breaker_until = t + duration_hours * SecondsPerHour]

DeactivateCircuitBreaker(r) ==
  [r EXCEPT !.circuit_breaker_active = FALSE,
            !.circuit_breaker_until = None]

\* check_trade_allowed for a position of a tenth of the capital: the position
\* count and the cash reserve are within their limits
CheckTradeAllowed(r, t) ==
  IF r.circuit_breaker_active /\ t < r.circuit_breaker_until
  THEN [risk |-> r, allowed |-> FALSE]
  ELSE LET Limits(r1) ==
             IF r1.daily_pnl < 0
                /\ Abs(r1.daily_pnl) * 100 >= max_daily_loss_pct * InitialCapital
             THEN [risk |-> ActivateCircuitBreaker(r1, t, 24), allowed |-> FALSE]
             ELSE IF r1.weekly_pnl < 0
                     /\ Abs(r1.weekly_pnl) * 100 >= max_weekly_loss_pct * InitialCapital
             THEN [risk |-> ActivateCircuitBreaker(r1, t, 168), allowed |-> FALSE]
             ELSE [risk |-> r1, allowed |-> TRUE]
       IN Limits(IF r.circuit_breaker_active THEN DeactivateCircuitBreaker(r) ELSE r)

\* BaseStrategy._execute_buy
ExecuteBuy(r, t) ==
  LET Open(c) == IF c.allowed
                 THEN [c.risk EXCEPT !.open = TRUE, !.entries = @ + 1]
                 ELSE c.risk
  IN Open(CheckTradeAllowed(r, t))

\* StrategyOrchestrator.process_symbol followed by execute_signals: exit is
\* what the exit conditions of the held position say (None or the PnL the
\* exit realises), entry whether a strategy generates a BUY signal
OrchestratorProcessSymbol(r, t, exit, entry) ==
  IF r.circuit_breaker_active
  THEN [r EXCEPT !.signals = 0]
  ELSE IF r.open /\ exit # None
  THEN [r EXCEPT !.open = FALSE,
                 !.daily_pnl = @ + exit,
                 !.weekly_pnl = @ + exit,
                 !.signals = 1]
  ELSE IF entry /\ ~r.open
  THEN [ExecuteBuy(r, t) EXCEPT !.signals = 1]
  ELSE [r EXCEPT !.signals = 0]

VARIABLES
  mode,      \* which driver owns the engine: "unit", "oversold", "backtest", ...
  now,       \* the clock: timestamp of the latest bar / tick
  nbars,     \* number of bars / ticks so far
  eng,       \* HybridStrategyEngine state
  plan,      \* the plan returned by the latest on_bar call
  bar,       \* the bar handed to the latest on_bar call
  equity,    \* the equity handed to the latest on_bar call
  sig,       \* indicator_engine.latest() at the latest on_bar call
  cash,      \* HybridBacktester.cash / Portfolio.cash
  positions, \* HybridBacktester.positions / Portfolio.positions
  trades,    \* HybridBacktester.trades / Portfolio.trade_history
  pending,   \* HybridBacktester.pending_orders / HybridTradingBot.pending_orders[symbol]
  hard_stop_logged, \* HybridBacktester._hard_stop_logged (FALSE while unset)
  placed,    \* the orders appended to the pending list during the latest bar / tick
  exchange_orders, \* testnet: the orders created on the exchange and not cancelled there
  next_id,   \* testnet: the orderId the exchange hands out next
  fill_log,  \* paper: the fills written by order_logger.log_fill
  call,      \* the latest direct call of a Portfolio method, of
             \* _compute_band_and_spread or of on_bar, with what it returned
  replay,    \* backtest: the ledger of a second backtester fed the same bars
  bot,       \* HybridTradingBot: running, _last_atr_pct, where main / run stand
             \* (pc) and stood when the signal came (signal_pc),
             \* and what the latest tick did for each symbol
  tick,      \* paper: what get_ticker returned in the latest tick, at the top of
             \* _trading_loop (t1) and in _check_fills (t2)
  risk       \* Backtester: the RiskManager's circuit breaker, the Portfolio's
             \* daily / weekly PnL, and what the latest loop pass produced

vars == <<mode, now, nbars, eng, plan, bar, equity, sig,
          cash, positions, trades, pending, hard_stop_logged,
          placed, exchange_orders, next_id, fill_log, call, tick, replay, bot, risk>>

engineVars == <<eng, plan, bar, equity, sig>>

ledgerVars == <<cash, positions, trades, pending, hard_stop_logged,
               placed, exchange_orders, next_id, fill_log>>

Init ==
  /\ mode \in {"unit", "oversold", "backtest", "fills", "paper", "testnet", "portfolio",
              "bot", "spread", "unstamped", "breaker"}
  /\ now = StartTime
  /\ nbars = 0
  /\ eng = EngineInit
  /\ plan = NoPlan
  /\ bar = NoBar
  /\ equity = 0
  /\ sig = NoSignals
  /\ cash = InitialCapital
  /\ positions = NoPositions
  /\ trades = <<>>
  /\ pending = <<>>
  /\ hard_stop_logged = FALSE
  /\ placed = <<>>
  /\ exchange_orders = {}
  /\ next_id = 1
  /\ fill_log = <<>>
  /\ call = NoCall
  /\ tick = NoTick
  /\ bot = BotInit
  /\ risk = RiskInit
  /\ replay = [eng |-> EngineInit, cash |-> InitialCapital, positions |-> NoPositions,
               trades |-> <<>>, pending |-> <<>>, hard_stop_logged |-> FALSE,
               plan |-> NoPlan]

(***************************************************************************)
(* A direct caller of the engine, as the test scripts are: any bar, any    *)
(* equity, any indicator bundle.                                           *)
(***************************************************************************)
UnitOnBar ==
  /\ mode = "unit"
  /\ nbars < MaxBars
  /\ \E dt \in Deltas, c \in UnitPrices, eq \in Equities, s \in Signals :
       LET b == [timestamp |-> now + dt, close |-> c, low |-> c, high |-> c]
       IN \E r \in {OnBar(eng, b, eq, s)} :
          /\ now' = now + dt
          /\ nbars' = nbars + 1
          /\ eng' = r.eng
          /\ plan' = r.plan
          /\ bar' = b
          /\ equity' = eq
          /\ sig' = s
  /\ UNCHANGED <<mode, risk, ledgerVars, call, tick, replay, bot>>

\* a direct caller of on_bar whose bars come without a timestamp; the call
\* record keeps the caller's engine (eng), what it was before the call
\* (eng_before), the bar, the bundle and the plan returned
UnstampedOnBar ==
  /\ mode = "unstamped"
  /\ \E c \in Prices, s \in Signals :
       LET e0 == IF call.op = "on_bar" THEN call.eng ELSE EngineInit
           n0 == IF call.op = "on_bar" THEN call.n ELSE 0
           b  == [timestamp |-> None, close |-> c, low |-> c, high |-> c]
       IN /\ n0 < MaxBars
          /\ \E r \in {OnBarUnstamped(e0, b, InitialCapital, s)} :
               call' = [op |-> "on_bar", symbol |-> "", strategy |-> "",
                        side |-> "", quantity |-> 0, price |-> 0, ok |-> TRUE,
                        pnl |-> 0, cash_before |-> 0, n |-> n0 + 1,
                        eng_before |-> e0, eng |-> r.eng, bar |-> b,
                        signals |-> s, plan |-> r.plan]
  /\ UNCHANGED <<mode, risk, now, nbars, engineVars, ledgerVars, tick, replay, bot>>

\* the oversold scenario of the test scripts: the equity stays at the initial
\* capital, the bundle is oversold or neutral
OversoldOnBar ==
  /\ mode = "oversold"
  /\ nbars < MaxBars
  /\ \E dt \in OversoldDeltas, c \in Prices, s \in OversoldSignals :
       LET b == [timestamp |-> now + dt, close |-> c, low |-> c, high |-> c]
       IN \E r \in {OnBar(eng, b, InitialCapital, s)} :
          /\ now' = now + dt
          /\ nbars' = nbars + 1
          /\ eng' = r.eng
          /\ plan' = r.plan
          /\ bar' = b
          /\ equity' = InitialCapital
          /\ sig' = s
  /\ UNCHANGED <<mode, risk, ledgerVars, call, tick, replay, bot>>

\* the caller of the oversold scenario reports the fill of the DCA order of the
\* last plan, at the order's price, through notify_dca_fill
OversoldDcaFill ==
  /\ mode = "oversold"
  /\ plan.dca_orders # <<>>
  /\ eng.last_dca_fill_price # plan.dca_orders[1].price
  /\ eng' = NotifyDcaFill(eng, plan.dca_orders[1].price)
  /\ UNCHANGED <<mode, risk, now, nbars, plan, bar, equity, sig, ledgerVars, call, tick, replay, bot>>

(***************************************************************************)
(* HybridBacktester (run_backtest.py)                                      *)
(***************************************************************************)
\* _calculate_equity
BtCalculateEquity(c, ps, current_price) ==
  IF Symbol \in DOMAIN ps
  THEN IF ps[Symbol].side = "LONG"
       THEN c + ps[Symbol].qty * current_price
       ELSE c + ps[Symbol].qty * (ps[Symbol].entry_price - current_price)
  ELSE c

\* what datetime.now() may return when a run of the backtester reads it
WallClocks == {1, 2}

\* _close_all_positions: st is [cash, positions, trades, eng]; the trade is
\* stamped with datetime.now(), read as wall
BtCloseAllPositions(st, price, wall) ==
  IF Symbol \in DOMAIN st.positions
  THEN LET p == st.positions[Symbol]
       IN [st EXCEPT !.cash = @ + p.qty * price,
                     !.trades = Append(@, [timestamp   |-> wall,
                                           entry_price |-> p.entry_price,
                                           exit_price  |-> price,
                                           qty         |-> p.qty,
                                           tag         |-> Tag("hard_stop", 0, "")]),
                     !.positions = DelKey(@, Symbol)]
  ELSE st

\* _cancel_grid_orders
BtCancelGridOrders(po) == SelectSeq(po, LAMBDA o : ~IsGridTag(o.tag))

\* _execute_orders: every order of the list becomes a pending order
BtExecuteOrders(po, orders, ts) ==
  po \o [k \in 1..Len(orders) |->
           [side |-> orders[k].side, price |-> orders[k].price,
            tag |-> orders[k].tag, timestamp |-> ts]]

\* _fill_order
BtFillOrder(st, order, fill_price, timestamp) ==
  LET eq0         == BtCalculateEquity(st.cash, st.positions, fill_price)
      order_value == eq0 \div 100
      qty         == order_value \div fill_price
      fee         == order_value \div 1000
  IN IF order.side = "BUY"
     THEN LET ps1 == IF Symbol \notin DOMAIN st.positions
                     THEN PutKey(st.positions, Symbol,
                                 [qty |-> qty, entry_price |-> fill_price, side |-> "LONG"])
                     ELSE LET pos == st.positions[Symbol]
                              total_qty == pos.qty + qty
                              avg_price == (pos.qty * pos.entry_price + qty * fill_price)
                                             \div total_qty
                          IN PutKey(st.positions, Symbol,
                                    [pos EXCEPT !.qty = total_qty, !.entry_price = avg_price])
          IN [st EXCEPT !.positions = ps1,
                        !.cash = @ - (order_value + fee),
                        !.eng = IF IsDcaTag(order.tag)
                                THEN NotifyDcaFill(@, fill_price) ELSE @]
     ELSE IF Symbol \in DOMAIN st.positions
          THEN LET pos == st.positions[Symbol]
               IN IF qty >= pos.qty
                  THEN LET sell_value == pos.qty * fill_price
                           sfee == sell_value \div 1000
                       IN [st EXCEPT !.cash = @ + (sell_value - sfee),
                                     !.trades = Append(@, [timestamp   |-> timestamp,
                                                           entry_price |-> pos.entry_price,
                                                           exit_price  |-> fill_price,
                                                           qty         |-> pos.qty,
                                                           tag         |-> order.tag]),
                                     !.positions = DelKey(@, Symbol)]
                  ELSE [st EXCEPT !.cash = @ + qty * fill_price,
                                  !.positions = PutKey(@, Symbol,
                                                       [pos EXCEPT !.qty = @ - qty]),
                                  !.trades = Append(@, [timestamp   |-> timestamp,
                                                        entry_price |-> pos.entry_price,
                                                        exit_price  |-> fill_price,
                                                        qty         |-> qty,
                                                        tag         |-> order.tag])]
          ELSE st

\* the fill rule of _check_fills
BtFilled(order, b) ==
  IF order.side = "BUY" THEN b.low <= order.price ELSE b.high >= order.price

\* _check_fills: the loop over the pending orders, from index i on
RECURSIVE BtFillLoop(_, _, _, _)
BtFillLoop(st, po, i, b) ==
  IF i > Len(po) THEN st
  ELSE BtFillLoop(IF BtFilled(po[i], b) THEN BtFillOrder(st, po[i], po[i].price, b.timestamp)
                   ELSE st,
                  po, i + 1, b)

BtCheckFills(st, po, b) ==
  [st |-> BtFillLoop(st, po, 1, b),
   pending |-> SelectSeq(po, LAMBDA o : ~BtFilled(o, b))]

\* the hard-stop branch of run: positions are closed when the stop is first seen
BtApplyStop(st, logged, p, close, wall) ==
  IF p.sl_action.stop
  THEN IF ~logged
       THEN [st |-> BtCloseAllPositions(st, close, wall), logged |-> TRUE]
       ELSE [st |-> st, logged |-> logged]
  ELSE [st |-> st, logged |-> FALSE]

\* the pending orders that survive the kill-replace of the order branch of run
BtKept(po, p) ==
  IF ~p.sl_action.stop /\ p.pnl_gate_state = "RUN" /\ p.kill_replace
  THEN BtCancelGridOrders(po) ELSE po

\* the order branch of run
BtPlaceOrders(po, p, ts) ==
  IF p.sl_action.stop THEN po
  ELSE IF p.pnl_gate_state = "RUN"
  THEN BtExecuteOrders(
         BtExecuteOrders(
           BtExecuteOrders(BtKept(po, p), p.grid_orders, ts),
           p.dca_orders, ts),
         p.tp_orders, ts)
  ELSE IF p.pnl_gate_state = "DEGRADED"
  THEN BtExecuteOrders(BtExecuteOrders(po, p.dca_orders, ts), p.tp_orders, ts)
  ELSE po

\* one iteration of the loop of run, on the ledger st of one backtester:
\* st is [eng, cash, positions, trades, pending, hard_stop_logged]
BtRunBar(st, b, s, wall) ==
  LET eq == BtCalculateEquity(st.cash, st.positions, b.close)
      Outcome(r, a, po1, f) ==
        [eng |-> f.st.eng, cash |-> f.st.cash, positions |-> f.st.positions,
         trades |-> f.st.trades, pending |-> f.pending,
         hard_stop_logged |-> a.logged, plan |-> r.plan, equity |-> eq,
         placed |-> SubSeq(po1, Len(BtKept(st.pending, r.plan)) + 1, Len(po1))]
      Fill(r, a, po1) == Outcome(r, a, po1, BtCheckFills(a.st, po1, b))
      Act(r) == Fill(r,
                     BtApplyStop([cash |-> st.cash, positions |-> st.positions,
                                  trades |-> st.trades, eng |-> r.eng],
                                 st.hard_stop_logged, r.plan, b.close, wall),
                     BtPlaceOrders(st.pending, r.plan, b.timestamp))
  IN Act(OnBar(st.eng, b, eq, s))

\* the ledger a run leaves behind, as the replay of the same bars keeps it
Ledger(r) ==
  [eng |-> r.eng, cash |-> r.cash, positions |-> r.positions, trades |-> r.trades,
   pending |-> r.pending, hard_stop_logged |-> r.hard_stop_logged, plan |-> r.plan]

\* one bar of the data frame, handed to the backtester and to a second, fresh
\* backtester that replays the same frame
BacktestBar ==
  /\ mode = "backtest"
  /\ nbars < MaxBars
  /\ \E dt \in {bar_seconds}, c \in Prices, w \in Wicks, s \in DriverSignals,
        wall1 \in WallClocks, wall2 \in WallClocks :
       LET b == [timestamp |-> now + dt, close |-> c, low |-> c - w, high |-> c + w]
       IN \E r \in {BtRunBar([eng |-> eng, cash |-> cash, positions |-> positions,
                              trades |-> trades, pending |-> pending,
                              hard_stop_logged |-> hard_stop_logged], b, s, wall1)},
             r2 \in {BtRunBar(replay, b, s, wall2)} :
          /\ now' = now + dt
          /\ nbars' = nbars + 1
          /\ plan' = r.plan
          /\ bar' = b
          /\ equity' = r.equity
          /\ sig' = s
          /\ eng' = r.eng
          /\ cash' = r.cash
          /\ positions' = r.positions
          /\ trades' = r.trades
          /\ pending' = r.pending
          /\ hard_stop_logged' = r.hard_stop_logged
          /\ placed' = r.placed
          /\ replay' = Ledger(r2)
  /\ UNCHANGED <<mode, risk, exchange_orders, next_id, fill_log, call, tick, bot>>

\* BUY fills of the backtester in a row, as _check_fills makes them when the low
\* of a bar crosses the BUY orders that have gathered in the pending list
MaxFills == 102

\* the price of the gathered BUY orders, in cents
FillPrices == {9955}

BtBuyFill ==
  /\ mode = "fills"
  /\ nbars < MaxFills
  /\ \E fill_price \in FillPrices :
       \E st \in {BtFillOrder([cash |-> cash, positions |-> positions,
                               trades |-> trades, eng |-> eng],
                              [side |-> "BUY", price |-> fill_price,
                               tag |-> Tag("grid_buy", 1, ""), timestamp |-> now],
                              fill_price, now)} :
          /\ nbars' = nbars + 1
          /\ cash' = st.cash
          /\ positions' = st.positions
          /\ trades' = st.trades
          /\ eng' = st.eng
          /\ call' = [NoCall EXCEPT !.op = "fill", !.side = "BUY", !.price = fill_price]
  /\ UNCHANGED <<mode, risk, now, plan, bar, equity, sig, pending, hard_stop_logged,
                 placed, exchange_orders, next_id, fill_log, tick, replay, bot>>

\* prices at which the SELL orders handed to _fill_order fill, in cents
SellFillPrices == {10045}

\* one SELL order handed to _fill_order, among the first MaxBars fills
BtSellFill ==
  /\ mode = "fills"
  /\ nbars < MaxBars
  /\ \E fill_price \in SellFillPrices :
       \E st \in {BtFillOrder([cash |-> cash, positions |-> positions,
                               trades |-> trades, eng |-> eng],
                              [side |-> "SELL", price |-> fill_price,
                               tag |-> Tag("grid_sell", 1, ""), timestamp |-> now],
                              fill_price, now)} :
          /\ nbars' = nbars + 1
          /\ cash' = st.cash
          /\ positions' = st.positions
          /\ trades' = st.trades
          /\ eng' = st.eng
          /\ call' = [NoCall EXCEPT !.op = "fill", !.side = "SELL", !.price = fill_price]
  /\ UNCHANGED <<mode, risk, now, plan, bar, equity, sig, pending, hard_stop_logged,
                 placed, exchange_orders, next_id, fill_log, tick, replay, bot>>

(***************************************************************************)
(* Portfolio (src/core/portfolio.py)                                       *)
(***************************************************************************)
\* Position.update_pnl
UpdatePnl(position, current_price) ==
  IF position.side = "LONG"
  THEN (current_price - position.entry_price) * position.quantity
  ELSE (position.entry_price - current_price) * position.quantity

\* the loop of get_total_value over the keys found in current_prices
RECURSIVE PositionValue(_, _, _)
PositionValue(ps, current_prices, keys) ==
  IF keys = {} THEN 0
  ELSE LET Add(k) ==
             ps[k].entry_price * ps[k].quantity + UpdatePnl(ps[k], current_prices[k])
               + PositionValue(ps, current_prices, keys \ {k})
       IN Add(CHOOSE k \in keys : TRUE)

\* get_total_value / get_equity: the loop variable is the position KEY
GetTotalValue(c, ps, current_prices) ==
  c + PositionValue(ps, current_prices,
                    {k \in DOMAIN ps : k \in DOMAIN current_prices})

\* get_position: the set holding the position, empty for None
GetPosition(ps, symbol, strategy) ==
  IF PositionKey(symbol, strategy) \in DOMAIN ps
  THEN {ps[PositionKey(symbol, strategy)]} ELSE {}

\* mutation of open_position: an existing position is not looked for
OpenPosition_NoKeyCheck(st, symbol, side, quantity, entry_price, strategy) ==
  IF entry_price * quantity > st.cash THEN st
  ELSE [st EXCEPT !.positions = PutKey(@, PositionKey(symbol, strategy),
                                       [symbol |-> symbol, side |-> side,
                                        quantity |-> quantity,
                                        entry_price |-> entry_price,
                                        strategy |-> strategy]),
                  !.cash = @ - entry_price * quantity]

\* mutation of open_position: a call on a taken key adds to the position
OpenPosition_AddsToExisting(st, symbol, side, quantity, entry_price, strategy) ==
  IF entry_price * quantity > st.cash THEN st
  ELSE [st EXCEPT !.positions =
                    PutKey(@, PositionKey(symbol, strategy),
                           [symbol |-> symbol, side |-> side,
                            quantity |-> IF PositionKey(symbol, strategy) \in DOMAIN @
                                         THEN @[PositionKey(symbol, strategy)].quantity
                                                + quantity
                                         ELSE quantity,
                            entry_price |-> entry_price,
                            strategy |-> strategy]),
                  !.cash = @ - entry_price * quantity]

\* mutation of open_position: the cost is not taken from cash
OpenPosition_NoDebit(st, symbol, side, quantity, entry_price, strategy) ==
  IF entry_price * quantity > st.cash THEN st
  ELSE IF PositionKey(symbol, strategy) \in DOMAIN st.positions THEN st
  ELSE [st EXCEPT !.positions = PutKey(@, PositionKey(symbol, strategy),
                                       [symbol |-> symbol, side |-> side,
                                        quantity |-> quantity,
                                        entry_price |-> entry_price,
                                        strategy |-> strategy])]

\* what open_position returns
OpenPositionReturns(st, symbol, quantity, entry_price, strategy) ==
  IF entry_price * quantity > st.cash THEN FALSE
  ELSE IF PositionKey(symbol, strategy) \in DOMAIN st.positions THEN FALSE
  ELSE TRUE

\* open_position: st is the record of everything a tick may change
OpenPosition(st, symbol, side, quantity, entry_price, strategy) ==
  LET position_cost == entry_price * quantity
      position_key  == PositionKey(symbol, strategy)
  IN IF position_cost > st.cash THEN st
     ELSE IF position_key \in DOMAIN st.positions THEN st
     ELSE [st EXCEPT !.positions = PutKey(@, position_key,
                                          [symbol |-> symbol, side |-> side,
                                           quantity |-> quantity,
                                           entry_price |-> entry_price,
                                           strategy |-> strategy]),
                     !.cash = @ - position_cost]

\* mutation of close_position: a quantity above the position's is not cut down
ClosePosition_NoClamp(st, symbol, strategy, exit_price, quantity) ==
  LET position_key == PositionKey(symbol, strategy)
      Close(position, close_qty) ==
        [st EXCEPT
           !.cash = @ + exit_price * close_qty,
           !.positions = IF close_qty >= position.quantity
                         THEN DelKey(@, position_key)
                         ELSE PutKey(@, position_key,
                                     [position EXCEPT !.quantity = @ - close_qty]),
           !.trades = Append(@, [symbol      |-> symbol,
                                 strategy    |-> strategy,
                                 side        |-> position.side,
                                 entry_price |-> position.entry_price,
                                 exit_price  |-> exit_price,
                                 quantity    |-> close_qty,
                                 pnl         |-> IF position.side = "LONG"
                                                 THEN (exit_price - position.entry_price)
                                                        * close_qty
                                                 ELSE (position.entry_price - exit_price)
                                                        * close_qty])]
  IN IF position_key \notin DOMAIN st.positions THEN st
     ELSE Close(st.positions[position_key],
                IF quantity = None \/ quantity = 0
                THEN st.positions[position_key].quantity ELSE quantity)

\* close_position; quantity is None when the argument is omitted
ClosePosition(st, symbol, strategy, exit_price, quantity) ==
  LET position_key == PositionKey(symbol, strategy)
      Close(position, close_qty) ==
        [st EXCEPT
           !.cash = @ + exit_price * close_qty,
           !.positions = IF close_qty >= position.quantity
                         THEN DelKey(@, position_key)
                         ELSE PutKey(@, position_key,
                                     [position EXCEPT !.quantity = @ - close_qty]),
           !.trades = Append(@, [symbol      |-> symbol,
                                 strategy    |-> strategy,
                                 side        |-> position.side,
                                 entry_price |-> position.entry_price,
                                 exit_price  |-> exit_price,
                                 quantity    |-> close_qty,
                                 pnl         |-> IF position.side = "LONG"
                                                 THEN (exit_price - position.entry_price)
                                                        * close_qty
                                                 ELSE (position.entry_price - exit_price)
                                                        * close_qty])]
      Requested(position) ==
        IF quantity = None \/ quantity = 0 THEN position.quantity ELSE quantity
  IN IF position_key \notin DOMAIN st.positions THEN st
     ELSE Close(st.positions[position_key],
                Min2(Requested(st.positions[position_key]),
                     st.positions[position_key].quantity))

\* a direct caller of the Portfolio, as test_pnl_tracking.py is: open_position
PortfolioOpen ==
  /\ mode = "portfolio"
  /\ nbars < MaxCalls
  /\ \E strategy \in Strategies, side \in Sides,
        quantity \in Quantities, entry_price \in CallPrices :
       \E st \in {OpenPosition([cash |-> cash, positions |-> positions, trades |-> trades],
                               Symbol, side, quantity, entry_price, strategy)} :
          /\ nbars' = nbars + 1
          /\ cash' = st.cash
          /\ positions' = st.positions
          /\ trades' = st.trades
          /\ call' = [op |-> "open", symbol |-> Symbol, strategy |-> strategy,
                      side |-> side, quantity |-> quantity, price |-> entry_price,
                      ok |-> OpenPositionReturns([cash |-> cash, positions |-> positions],
                                                 Symbol, quantity, entry_price, strategy),
                      pnl |-> 0, cash_before |-> cash]
  /\ UNCHANGED <<mode, risk, now, engineVars, tick, replay, bot, pending, hard_stop_logged, placed,
                 exchange_orders, next_id, fill_log>>

\* a direct caller of the Portfolio: close_position, with or without a quantity
PortfolioClose ==
  /\ mode = "portfolio"
  /\ nbars < MaxCalls
  /\ \E strategy \in Strategies, exit_price \in CallPrices,
        quantity \in Quantities \cup {None} :
       \E st \in {ClosePosition([cash |-> cash, positions |-> positions, trades |-> trades],
                                Symbol, strategy, exit_price, quantity)} :
          /\ nbars' = nbars + 1
          /\ cash' = st.cash
          /\ positions' = st.positions
          /\ trades' = st.trades
          /\ call' = [op |-> "close", symbol |-> Symbol, strategy |-> strategy,
                      side |-> "", quantity |-> quantity, price |-> exit_price,
                      ok |-> PositionKey(Symbol, strategy) \in DOMAIN positions,
                      pnl |-> IF PositionKey(Symbol, strategy) \in DOMAIN positions
                              THEN st.trades[Len(st.trades)].pnl ELSE 0,
                      cash_before |-> cash]
  /\ UNCHANGED <<mode, risk, now, engineVars, tick, replay, bot, pending, hard_stop_logged, placed,
                 exchange_orders, next_id, fill_log>>

(***************************************************************************)
(* HybridTradingBot (main.py)                                              *)
(***************************************************************************)
\* a Position is an object without __getitem__: position['quantity'] raises
PositionSubscriptable == FALSE

\* IndicatorEngine defines update, latest and get_dataframe only:
\* indicator_engine.get_latest_signals() raises
HasGetLatestSignals == FALSE

order_max_age_seconds == 300

order_price_drift_threshold_pct == 2

order_cancel_on_volatility_spike == TRUE

\* 1.5, in tenths
order_volatility_spike_threshold == 15

\* signals.get('atr_pct', 1.0) when the bundle has none, in 1/10 of a percent
default_atr_pct == 10

order_cancel_on_rsi_reversal == TRUE

order_rsi_reversal_threshold == 20

\* signals.get('rsi', 50) when the bundle has none
default_rsi == 50

\* min_notional 11.0 in 1/10000
min_notional == 11 * 10000

\* round(n / d) as Python rounds: halves go to the even neighbour
RoundHalfEven(n, d) ==
  LET q == n \div d
      r == n % d
  IN IF 2 * r < d THEN q
     ELSE IF 2 * r > d THEN q + 1
     ELSE IF q % 2 = 0 THEN q ELSE q + 1

\* _round_quantity of num/den: the step of SOLUSDT is 0.01
RoundQuantity(symbol, num, den) == RoundHalfEven(num, den)

\* _round_price: tick 1.0 from 1000, 0.1 from 100, 0.01 below
RoundPrice(symbol, price) ==
  IF price >= 100000 THEN RoundHalfEven(price, 100) * 100
  ELSE IF price >= 10000 THEN RoundHalfEven(price, 10) * 10
  ELSE price

\* exchange.get_ticker as the exchange contract has it: a price, or a failure;
\* 93.00 lies between the orders of two plans (above the SELL side of a grid
\* around 92.00, below a DCA buy under 95.00)
Tickers == Prices \cup {9300, None}

\* exchange.get_klines: a frame of bars, or an empty frame
Klines == {"ok", "empty"}

\* exchange.create_order in testnet: an order with an orderId, or None
CreateOutcomes == {"ok", "rejected"}

\* current_prices of _trading_loop: the symbols whose ticker was read
CurrentPrices(t) == IF t = None THEN [k \in {} |-> 0] ELSE [k \in {Symbol} |-> t]

\* one iteration of the loop of _place_orders
PlaceOrder(st, order, current_price, order_type, ts, co) ==
  LET eq0           == GetTotalValue(st.cash, st.positions, CurrentPrices(current_price))
      order_value   == (eq0 * 2) \div 100
      Track(pending_order) ==
        IF mode = "paper"
        THEN [st EXCEPT !.pending = Append(@, pending_order),
                        !.placed = Append(@, pending_order)]
        ELSE IF co = "ok"
        THEN [st EXCEPT !.pending = Append(@, pending_order),
                        !.placed = Append(@, pending_order),
                        !.exchange_orders = @ \cup {pending_order},
                        !.next_id = @ + 1]
        ELSE st
      Place(qty, price) ==
        IF qty * order.price < min_notional THEN st
        ELSE Track([symbol |-> Symbol, side |-> order.side, price |-> price,
                    qty |-> qty, tag |-> order.tag, order_type |-> order_type,
                    order_id |-> IF mode = "paper" THEN ts ELSE st.next_id,
                    timestamp |-> ts, initial_rsi |-> None])
  IN Place(RoundQuantity(Symbol, order_value, order.price),
           RoundPrice(Symbol, order.price))

\* _place_orders: the loop over the orders, from index i on
RECURSIVE PlaceOrders(_, _, _, _, _, _, _)
PlaceOrders(st, orders, i, current_price, order_type, ts, co) ==
  IF i > Len(orders) THEN st
  ELSE PlaceOrders(PlaceOrder(st, orders[i], current_price, order_type, ts, co),
                   orders, i + 1, current_price, order_type, ts, co)

\* _cancel_grid_orders: the local list is filtered, the exchange is not called
CancelGridOrders(st) ==
  [st EXCEPT !.pending = SelectSeq(@, LAMBDA o : ~IsGridTag(o.tag))]

\* _close_all_positions: position['quantity'] raises when there is a position
CloseAllPositions(st, price) ==
  IF GetPosition(st.positions, Symbol, "Hybrid") # {}
  THEN IF PositionSubscriptable
       THEN ClosePosition(st, Symbol, "Hybrid", price, None)
       ELSE st
  ELSE st

\* mutation of the plan branch: every plan without a stop is executed as a RUN
\* plan and gets a grid around its reference price
ExecutePlan_GateIgnored(st, p, current_price, ts, co) ==
  IF p.sl_action.stop THEN CloseAllPositions(st, current_price)
  ELSE PlaceOrders(
         PlaceOrders(
           PlaceOrders(st, GridLevels(p.ref_price, p.spread_pct), 1,
                       current_price, "GRID", ts, co),
           p.dca_orders, 1, current_price, "DCA", ts, co),
         p.tp_orders, 1, current_price, "TP", ts, co)

\* the branch of _process_symbol on the plan
ExecutePlan(st, p, current_price, ts, co) ==
  IF p.sl_action.stop THEN CloseAllPositions(st, current_price)
  ELSE IF p.pnl_gate_state = "RUN"
  THEN PlaceOrders(
         PlaceOrders(
           PlaceOrders(IF p.kill_replace THEN CancelGridOrders(st) ELSE st,
                       p.grid_orders, 1, current_price, "GRID", ts, co),
           p.dca_orders, 1, current_price, "DCA", ts, co),
         p.tp_orders, 1, current_price, "TP", ts, co)
  ELSE IF p.pnl_gate_state = "DEGRADED"
  THEN PlaceOrders(PlaceOrders(st, p.dca_orders, 1, current_price, "DCA", ts, co),
                   p.tp_orders, 1, current_price, "TP", ts, co)
  ELSE st

\* _process_symbol
ProcessSymbol(st, current_price, eq, kl, c, s, ts, co) ==
  IF current_price = None \/ kl = "empty" THEN st
  ELSE LET b == [timestamp |-> ts, close |-> c, low |-> c, high |-> c]
           Execute(r) ==
             ExecutePlan([st EXCEPT !.eng = r.eng, !.plan = r.plan, !.bar = b,
                                    !.equity = eq, !.sig = s],
                         r.plan, current_price, ts, co)
       IN Execute(OnBar(st.eng, b, eq, s))

\* what exchange.cancel_order does when asked: the order is cancelled, or the
\* call returns False or raises and the order stays open on the exchange
CancelOutcomes == {"ok", "failed"}

\* _cancel_order: the exchange is asked in testnet; the order leaves the list
\* whatever the exchange answered
CancelOrder(st, order, ca) ==
  [st EXCEPT !.exchange_orders = IF mode # "paper" /\ ca = "ok" THEN @ \ {order}
                                 ELSE @,
             !.pending = SelectSeq(@, LAMBDA o : o # order)]

\* the first three tests of the if/elif chain of _manage_pending_orders end
\* the chain for this order: it is over-age, or its price is positive (the
\* drift test), or it is a grid order and the volatility rule is on
ChainEndsEarly(order, ts) ==
  \/ ts - order.timestamp > order_max_age_seconds
  \/ order.price > 0
  \/ (order_cancel_on_volatility_spike /\ IsGridTag(order.tag))

\* the RSI test, the last elif of the chain, once initial_rsi is on the order
RsiReversed(order, current_rsi) ==
  \/ /\ order.side = "BUY"
     /\ order.initial_rsi < 40
     /\ current_rsi > 60
     /\ Abs(current_rsi - order.initial_rsi) > order_rsi_reversal_threshold
  \/ /\ order.side = "SELL"
     /\ order.initial_rsi > 60
     /\ current_rsi < 40
     /\ Abs(current_rsi - order.initial_rsi) > order_rsi_reversal_threshold

\* the cancellation criteria of _manage_pending_orders, one if/elif chain:
\* the volatility test is an elif of "order_price > 0", so it is reached only
\* by an order whose price is not positive, and the RSI test only by such an
\* order that the volatility test does not take; last_atr_pct is None while
\* _last_atr_pct holds nothing for the symbol.
Stale(order, current_price, ts, current_atr_pct, last_atr_pct, current_rsi) ==
  IF ts - order.timestamp > order_max_age_seconds THEN TRUE
  ELSE IF order.price > 0
  THEN Abs(current_price - order.price) * 100 > order_price_drift_threshold_pct * order.price
  ELSE IF order_cancel_on_volatility_spike /\ IsGridTag(order.tag)
  THEN /\ last_atr_pct # None
       /\ current_atr_pct * 10 > last_atr_pct * order_volatility_spike_threshold
  ELSE IF order_cancel_on_rsi_reversal
  THEN order.initial_rsi # None /\ RsiReversed(order, current_rsi)
  ELSE FALSE

\* order['initial_rsi'] = current_rsi, the first time the RSI test is reached
StoreInitialRsi(po, ts, current_rsi) ==
  [k \in 1..Len(po) |->
     IF /\ ~ChainEndsEarly(po[k], ts)
        /\ order_cancel_on_rsi_reversal
        /\ po[k].initial_rsi = None
     THEN [po[k] EXCEPT !.initial_rsi = current_rsi]
     ELSE po[k]]

RECURSIVE CancelAll(_, _, _, _)
CancelAll(st, orders, i, ca) ==
  IF i > Len(orders) THEN st
  ELSE CancelAll(CancelOrder(st, orders[i], ca), orders, i + 1, ca)

\* current_atr_pct of _manage_pending_orders
CurrentAtrPct(s) == IF s.avail THEN s.atr_pct ELSE default_atr_pct

\* current_rsi of _manage_pending_orders
CurrentRsi(s) == IF s.avail THEN s.rsi ELSE default_rsi

\* _manage_pending_orders; raised tells that the call ended in an exception.
\* The chain runs over every order first (storing initial_rsi where the RSI
\* test is reached for the first time), the cancellations follow, and
\* _last_atr_pct is stored at the end of the sweep of a symbol.
ManagePendingOrders(st, current_price, ts, ca) ==
  IF current_price = None THEN [st |-> st, raised |-> FALSE]
  ELSE IF ~HasGetLatestSignals THEN [st |-> st, raised |-> TRUE]
  ELSE [st |-> [CancelAll([st EXCEPT !.pending =
                                StoreInitialRsi(@, ts, CurrentRsi(st.sig))],
                          SelectSeq(st.pending,
                                    LAMBDA o : Stale(o, current_price, ts,
                                                     CurrentAtrPct(st.sig),
                                                     st.last_atr_pct,
                                                     CurrentRsi(st.sig))), 1, ca)
                  EXCEPT !.last_atr_pct = CurrentAtrPct(st.sig)],
        raised |-> FALSE]

\* the fill rule of _check_fills
Filled(order, current_price) ==
  IF order.side = "BUY" THEN current_price <= order.price
  ELSE current_price >= order.price

\* _fill_order raises on a SELL while a position is held
FillOrderRaises(st, order) ==
  /\ order.side # "BUY"
  /\ GetPosition(st.positions, Symbol, "Hybrid") # {}
  /\ ~PositionSubscriptable

\* _fill_order
FillOrder(st, order, fill_price, ts) ==
  LET entry == [order_id |-> order.order_id, side |-> order.side,
                price |-> fill_price, age |-> ts - order.timestamp]
  IN IF order.side = "BUY"
     THEN LET st1 == OpenPosition(st, Symbol, "LONG", order.qty, fill_price, "Hybrid")
          IN [st1 EXCEPT !.eng = IF IsDcaTag(order.tag)
                                 THEN NotifyDcaFill(@, fill_price) ELSE @,
                         !.fill_log = Append(@, entry)]
     ELSE IF GetPosition(st.positions, Symbol, "Hybrid") # {}
     THEN [ClosePosition(st, Symbol, "Hybrid", fill_price, None)
             EXCEPT !.fill_log = Append(@, entry)]
     ELSE st

\* the loop of _check_fills over the pending orders, from index i on
RECURSIVE FillLoop(_, _, _, _, _)
FillLoop(st, po, i, current_price, ts) ==
  IF i > Len(po) THEN [st |-> st, raised |-> FALSE]
  ELSE IF ~Filled(po[i], current_price) THEN FillLoop(st, po, i + 1, current_price, ts)
  ELSE IF FillOrderRaises(st, po[i]) THEN [st |-> st, raised |-> TRUE]
  ELSE FillLoop(FillOrder(st, po[i], po[i].price, ts), po, i + 1, current_price, ts)

\* _check_fills: paper only; the filled orders leave the list after the loop
CheckFills(st, t, ts) ==
  IF mode # "paper" \/ t = None THEN st
  ELSE LET Settle(f) ==
             IF f.raised THEN f.st
             ELSE [f.st EXCEPT !.pending = SelectSeq(@, LAMBDA o : ~Filled(o, t))]
       IN Settle(FillLoop(st, st.pending, 1, t, ts))

\* the display loop of _trading_loop reads position['quantity']
DisplayRaises(ps, current_price) ==
  /\ GetPosition(ps, Symbol, "Hybrid") # {}
  /\ current_price # None
  /\ ~PositionSubscriptable

\* _trading_loop: t1 is the ticker read at the top, t2 the one read by _check_fills
TradingLoop(st, t1, t2, kl, c, s, ts, co, ca) ==
  IF DisplayRaises(st.positions, t1) THEN st
  ELSE LET eq == GetTotalValue(st.cash, st.positions, CurrentPrices(t1))
           Fills(m) == IF m.raised THEN m.st ELSE CheckFills(m.st, t2, ts)
       IN Fills(ManagePendingOrders(ProcessSymbol(st, t1, eq, kl, c, s, ts, co),
                                    t1, ts, ca))

\* the bundles of the live loop: those of the backtest and one whose atr_pct
\* is twice theirs, more than order_volatility_spike_threshold times
LiveSignals ==
  DriverSignals \cup {[avail |-> TRUE, rsi |-> 72, atr_pct |-> 30, ema_fast |-> 9600]}

\* what the exchange answers during one tick.  A failed first ticker read leaves
\* only the second read to choose; an empty frame leaves no bundle and no order
\* to choose; the bar closes at the ticker price; create_order and cancel_order
\* are called in testnet only.
LiveInputs ==
  {[t1 |-> None, t2 |-> t, kl |-> "empty", c |-> 0, s |-> NoSignals, co |-> "ok",
    ca |-> "ok"] :
     t \in Tickers}
  \cup
  {[t1 |-> x[1], t2 |-> x[1], kl |-> "empty", c |-> 0, s |-> NoSignals, co |-> "ok",
    ca |-> x[2]] :
     x \in Prices \X (IF mode = "testnet" THEN CancelOutcomes ELSE {"ok"})}
  \cup
  {[t1 |-> x[1], t2 |-> x[1], kl |-> "ok", c |-> x[1], s |-> x[2], co |-> x[3],
    ca |-> x[4]] :
     x \in Prices \X LiveSignals
            \X (IF mode = "testnet" THEN CreateOutcomes ELSE {"ok"})
            \X (IF mode = "testnet" THEN CancelOutcomes ELSE {"ok"})}

LiveTick ==
  /\ mode \in {"paper", "testnet"}
  /\ nbars < MaxBars
  /\ \E dt \in Deltas, inp \in LiveInputs :
       LET st0 == [eng |-> eng, plan |-> plan, bar |-> bar, equity |-> equity,
                   sig |-> sig, cash |-> cash, positions |-> positions,
                   trades |-> trades, pending |-> pending, placed |-> <<>>,
                   exchange_orders |-> exchange_orders, next_id |-> next_id,
                   fill_log |-> fill_log, last_atr_pct |-> bot.last_atr_pct]
       IN \E st1 \in {TradingLoop(st0, inp.t1, inp.t2, inp.kl, inp.c, inp.s,
                                  now + dt, inp.co, inp.ca)} :
          /\ now' = now + dt
          /\ nbars' = nbars + 1
          /\ eng' = st1.eng
          /\ plan' = st1.plan
          /\ bar' = st1.bar
          /\ equity' = st1.equity
          /\ sig' = st1.sig
          /\ cash' = st1.cash
          /\ positions' = st1.positions
          /\ trades' = st1.trades
          /\ pending' = st1.pending
          /\ placed' = st1.placed
          /\ exchange_orders' = st1.exchange_orders
          /\ next_id' = st1.next_id
          /\ fill_log' = st1.fill_log
          /\ tick' = IF mode = "paper" THEN [t1 |-> inp.t1, t2 |-> inp.t2] ELSE NoTick
          /\ bot' = [bot EXCEPT !.last_atr_pct = st1.last_atr_pct]
  /\ UNCHANGED <<mode, risk, hard_stop_logged, call, replay>>

(***************************************************************************)
(* main, run and stop of main.py, with _trading_loop over several symbols  *)
(***************************************************************************)
\* stop: running is cleared, the final statistics and the order summary are
\* printed and the trade report is exported, whoever calls
Stop(b) ==
  [b EXCEPT !.running = FALSE,
            !.reports = @ + 1,
            !.report_in_tick = @ \/ b.pc = "tick"]

\* for which symbols a call to the exchange raises during one tick: the
\* ticker read at the top, get_klines or create_order in _process_symbol,
\* the ticker read in _check_fills
Failures == [ticker : SUBSET SymbolSet, process : SUBSET SymbolSet,
             fills : SUBSET SymbolSet]

\* _trading_loop of a paper bot that holds no position: which symbols got a
\* price, were processed, were swept by _manage_pending_orders and were
\* looked at by _check_fills.  The sweep has no try of its own: the first
\* symbol with a price raises in get_latest_signals and the outer except of
\* _trading_loop ends the tick.
SymbolsTick(b, f) ==
  LET priced == SymbolSet \ f.ticker
      sweep_raises == priced # {} /\ ~HasGetLatestSignals
  IN [b EXCEPT !.failed = f,
               !.priced = priced,
               !.processed = priced \ f.process,
               !.swept = IF sweep_raises THEN {} ELSE priced,
               !.reconciled = IF sweep_raises THEN {} ELSE SymbolSet \ f.fills]

\* run: self.running = True, then the loop
BotRun ==
  /\ mode = "bot"
  /\ bot.pc = "main"
  /\ bot' = [bot EXCEPT !.running = TRUE, !.pc = "loop"]
  /\ UNCHANGED <<mode, risk, now, nbars, engineVars, ledgerVars, call, tick, replay>>

\* while self.running: _trading_loop() is entered
BotTickStart ==
  /\ mode = "bot"
  /\ bot.pc = "loop"
  /\ bot.running
  /\ bot.ticks < MaxBars
  /\ bot' = [bot EXCEPT !.pc = "tick", !.ticks = @ + 1,
                        !.started_after_stop = @ \/ bot.reports > 0]
  /\ UNCHANGED <<mode, risk, now, nbars, engineVars, ledgerVars, call, tick, replay>>

\* _trading_loop returns; time.sleep(self.interval) begins
BotTickEnd ==
  /\ mode = "bot"
  /\ bot.pc = "tick"
  /\ \E f \in Failures : bot' = [SymbolsTick(bot, f) EXCEPT !.pc = "sleep"]
  /\ UNCHANGED <<mode, risk, now, nbars, engineVars, ledgerVars, call, tick, replay>>

\* time.sleep returns
BotSleepEnd ==
  /\ mode = "bot"
  /\ bot.pc = "sleep"
  /\ bot' = [bot EXCEPT !.pc = "loop"]
  /\ UNCHANGED <<mode, risk, now, nbars, engineVars, ledgerVars, call, tick, replay>>

\* while self.running is false: the loop is left and finally calls stop
BotLoopExit ==
  /\ mode = "bot"
  /\ bot.pc = "loop"
  /\ ~bot.running
  /\ bot' = [Stop(bot) EXCEPT !.pc = "done"]
  /\ UNCHANGED <<mode, risk, now, nbars, engineVars, ledgerVars, call, tick, replay>>

\* SIGINT or SIGTERM: signal_handler of main calls bot.stop() on the spot,
\* between two instructions of whatever the main thread is doing
BotSignal ==
  /\ mode = "bot"
  /\ bot.signal_pc = "none"
  /\ bot.pc \in {"main", "loop", "tick", "sleep"}
  /\ bot' = [Stop(bot) EXCEPT !.signal_pc = bot.pc]
  /\ UNCHANGED <<mode, risk, now, nbars, engineVars, ledgerVars, call, tick, replay>>

\* the policies an engine is built with in the spread calculation: dynamic
\* spread and RSI adjustment on or off, base spreads whose adjusted value
\* leaves [0.1, 2.0] on either side, a fixed spread outside that range
SpreadPolicies ==
  [use_dynamic_spread  : BOOLEAN,
   fixed_spread_pct    : {fixed_spread_pct, 2500},
   band_near_threshold : {band_near_threshold},
   band_mid_threshold  : {band_mid_threshold},
   spread_near_pct     : {spread_near_pct, 100},
   spread_mid_pct      : {spread_mid_pct},
   spread_far_pct      : {spread_far_pct, 1900},
   rsi_adjust_enabled  : BOOLEAN,
   rsi_adjust_factor   : {rsi_adjust_factor}]

\* the bundles of the spread calculation: atr_pct and rsi below, at and
\* above each threshold
SpreadSignals ==
  [avail : {TRUE}, rsi : {25, 30, 50, 70, 72}, atr_pct : {5, 10, 15, 20, 30},
   ema_fast : Emas]

\* _compute_band_and_spread called on an engine built with some policy
ComputeBandAndSpreadCall ==
  /\ mode = "spread"
  /\ \E cfg \in SpreadPolicies, s \in SpreadSignals :
       \E r \in {ComputeBandAndSpreadWith(cfg, s)} :
         call' = [op |-> "compute_band_and_spread", symbol |-> "", strategy |-> "",
                  side |-> "", quantity |-> 0, price |-> 0, ok |-> TRUE, pnl |-> 0,
                  cash_before |-> 0, cfg |-> cfg, signals |-> s,
                  band |-> r.band, spread_pct |-> r.spread_pct]
  /\ UNCHANGED <<mode, risk, now, nbars, engineVars, ledgerVars, tick, replay, bot>>

\* one pass of the loop of Backtester.run over the dates, for one symbol
BacktesterStep ==
  /\ mode = "breaker"
  /\ \E dt \in LoopDeltas, exit \in ClosePnls \cup {None}, entry \in BOOLEAN :
       LET t == Min2(now + dt, StartTime + MaxDays * SecondsPerDay)
       IN /\ entry => risk.entries < MaxEntries
          /\ now' = t
          /\ risk' = [OrchestratorProcessSymbol(ResetStats(risk, t), t, exit, entry)
                        EXCEPT !.parity = 1 - risk.parity]
  /\ UNCHANGED <<mode, nbars, engineVars, ledgerVars, call, tick, replay, bot>>

Next == UnitOnBar \/ OversoldOnBar \/ OversoldDcaFill \/ BacktestBar \/ BtBuyFill
          \/ BtSellFill \/ PortfolioOpen \/ PortfolioClose \/ LiveTick
          \/ BotRun \/ BotTickStart \/ BotTickEnd \/ BotSleepEnd \/ BotLoopExit
          \/ BotSignal \/ ComputeBandAndSpreadCall \/ UnstampedOnBar
          \/ BacktesterStep

Spec == Init /\ [][Next]_vars

\* the loop of Backtester.run goes on to its next pass as long as dates are left
LiveSpec == Init /\ [][Next]_vars /\ WF_vars(BacktesterStep)

(***************************************************************************)
(* Properties                                                              *)
(***************************************************************************)
\* this step is a bar or tick on which on_bar was called
OnBarCalled == nbars' = nbars + 1 /\ bar'.timestamp = now'

\* a plan with gate PAUSED and no order of any kind
PausedNoOrders(p) ==
  /\ p.pnl_gate_state = "PAUSED"
  /\ p.grid_orders = <<>>
  /\ p.dca_orders = <<>>
  /\ p.tp_orders = <<>>

\* the three resume conditions, for the bar of this step and the stop latched before it
ResumeConditionsHold ==
  /\ sig'.avail
  /\ bar'.timestamp - eng.hard_stop_timestamp >= resume_cooldown_bars * bar_seconds
  /\ sig'.rsi > resume_rsi_threshold
  /\ (bar'.close - eng.hard_stop_price) * 100 >= resume_price_recovery_pct * eng.hard_stop_price

\* C1, as stated: while the hard stop is latched, every on_bar plan is PAUSED
\* with empty grid, DCA and TP lists, until a bar on which the three resume
\* conditions hold.
C1_LatchedPlanPausedAnyBar ==
  [][(eng.hard_stop_active /\ OnBarCalled /\ ~ResumeConditionsHold)
       => PausedNoOrders(plan')]_vars

\* C1, amended: while the hard stop is latched, every on_bar plan computed with
\* an indicator bundle is PAUSED with empty grid, DCA and TP lists, until a bar
\* on which the three resume conditions hold; without a bundle on_bar returns
\* the default plan and leaves the latch as it is.
C1_LatchedPlanPaused ==
  [][(eng.hard_stop_active /\ OnBarCalled /\ ~ResumeConditionsHold)
       => IF sig'.avail
          THEN PausedNoOrders(plan') /\ plan'.sl_action.stop /\ eng'.hard_stop_active
          ELSE plan' = DefaultPlan(bar'.close) /\ eng' = eng]_vars

\* a bar arrived on a latched engine, with a bundle, and the stop stayed latched
C1_Witness ==
  /\ sig.avail
  /\ eng.hard_stop_active
  /\ plan.sl_action.reason = <<"Hard stop active", eng.hard_stop_reason>>
  /\ eng.hard_stop_timestamp < bar.timestamp

\* C3, as stated: a bar on which the three resume conditions hold, on a latched
\* engine, clears the hard-stop fields and yields a plan with sl_action.stop false.
C3_ResumeBarResumes ==
  [][(eng.hard_stop_active /\ OnBarCalled /\ ResumeConditionsHold)
       => /\ ~eng'.hard_stop_active
          /\ eng'.hard_stop_timestamp = None
          /\ eng'.hard_stop_price = None
          /\ ~plan'.sl_action.stop]_vars

\* the hard-stop thresholds against the daily anchors in force after this step
DailyPnlBreach ==
  /\ eng'.equity_open > 0
  /\ (equity' - eng'.equity_open) * 100 <= hard_stop_daily_pnl_pct * eng'.equity_open

GapBreach ==
  /\ eng'.open_price_day > 0
  /\ (bar'.close - eng'.open_price_day) * 100 <= hard_stop_gap_pct * eng'.open_price_day

\* the latch as C4 describes it, on the bar of this step
LatchedOnThisBar ==
  /\ eng'.hard_stop_active
  /\ eng'.hard_stop_timestamp = bar'.timestamp
  /\ eng'.hard_stop_price = bar'.close
  /\ eng'.hard_stop_reason = (IF DailyPnlBreach THEN "Daily PnL" ELSE "Gap")
  /\ PausedNoOrders(plan')
  /\ plan'.sl_action.stop
  /\ ~plan'.kill_replace

\* C4, as stated: with no hard stop latched, any bar whose daily PnL or gap is
\* at or below its hard-stop threshold latches the stop with the bar's
\* timestamp, price and reason, and the plan is PAUSED with stop and no orders.
C4_BreachLatchesAnyBar ==
  [][(~eng.hard_stop_active /\ OnBarCalled /\ (DailyPnlBreach \/ GapBreach))
       => LatchedOnThisBar]_vars

\* C4, amended: the same, for bars that come with an indicator bundle; a bar
\* without a bundle latches nothing.
C4_BreachLatches ==
  [][(~eng.hard_stop_active /\ OnBarCalled /\ (DailyPnlBreach \/ GapBreach))
       => IF sig'.avail THEN LatchedOnThisBar ELSE eng' = eng]_vars

\* a stop latched by the latest bar, which also met a gate threshold
C4_Witness ==
  /\ sig.avail
  /\ eng.hard_stop_active
  /\ eng.hard_stop_timestamp = bar.timestamp
  /\ plan.sl_action.reason \in {<<"Daily PnL">>, <<"Gap">>}
  /\ plan.pnl_gate_state = "PAUSED"

\* the gate that C5 prescribes for the metrics of the latest bar
PctAtMost(value, anchor, t) == (value - anchor) * 100 <= t * anchor

ExpectedGate ==
  IF PctAtMost(equity, eng.equity_open, gate_paused_daily_pnl_pct)
     \/ PctAtMost(bar.close, eng.open_price_day, gate_paused_gap_pct) THEN "PAUSED"
  ELSE IF PctAtMost(equity, eng.equity_open, gate_degraded_daily_pnl_pct)
          \/ PctAtMost(bar.close, eng.open_price_day, gate_degraded_gap_pct) THEN "DEGRADED"
  ELSE "RUN"

\* the latest plan comes from a bar that found the daily anchors set and no stop
NoStopPlan ==
  /\ plan # NoPlan
  /\ ~eng.hard_stop_active
  /\ ~plan.sl_action.stop
  /\ eng.equity_open > 0
  /\ eng.open_price_day > 0

\* C5, as stated: on a bar with no hard stop latched or triggered the gate is
\* PAUSED iff daily PnL or gap is at or below its paused threshold, else
\* DEGRADED iff one is at or below its degraded threshold, else RUN.
C5_GateFromMetricsAnyBar == NoStopPlan => plan.pnl_gate_state = ExpectedGate

\* C5, amended: the same for a bar that comes with an indicator bundle; without
\* a bundle the gate of the plan is RUN whatever the metrics.
C5_GateFromMetrics ==
  NoStopPlan => plan.pnl_gate_state = (IF sig.avail THEN ExpectedGate ELSE "RUN")

\* a DEGRADED plan, from metrics in the DEGRADED range, on a bar with a bundle
C5_Witness ==
  /\ NoStopPlan
  /\ sig.avail
  /\ plan.pnl_gate_state = "DEGRADED"
  /\ ExpectedGate = "DEGRADED"

\* C6: a plan whose gate is PAUSED has empty grid, DCA and TP lists.
C6_PausedPlanEmpty ==
  plan.pnl_gate_state = "PAUSED" => PausedNoOrders(plan)

\* a PAUSED plan from the gate thresholds alone, on a bar that would emit TP orders
C6_Witness ==
  /\ plan.pnl_gate_state = "PAUSED"
  /\ ~plan.sl_action.stop
  /\ sig.avail
  /\ sig.rsi >= tp_rsi_threshold

\* C7: a plan whose gate is DEGRADED has no grid order and kill_replace false;
\* DCA and TP orders may be in it.
C7_DegradedPlanNoGrid ==
  plan.pnl_gate_state = "DEGRADED" => (plan.grid_orders = <<>> /\ ~plan.kill_replace)

\* a DEGRADED plan carrying a DCA order, after a grid was anchored far enough
\* away for a RUN plan to ask for kill-replace
C7_Witness ==
  /\ plan.pnl_gate_state = "DEGRADED"
  /\ plan.dca_orders # <<>>
  /\ eng.last_grid_ref_price # None
  /\ KillReplace(eng, bar.close)

\* the latest plan was computed in the latest bar or tick
FreshPlan == plan # NoPlan /\ bar.timestamp = now

\* C2, as stated: in every tick or backtest bar whose plan has sl_action.stop
\* true, the position held for the symbol is closed at the current price
\* during that tick.
C2_StopClosesPositions ==
  [][(mode \notin {"unit", "oversold"} /\ OnBarCalled /\ plan'.sl_action.stop /\ DOMAIN positions # {})
       => /\ Len(trades') > Len(trades)
          /\ trades'[Len(trades) + 1].exit_price = bar'.close
          /\ \A k \in DOMAIN positions :
               trades'[Len(trades) + 1].entry_price = positions[k].entry_price]_vars

\* the orders a plan lists, as (side, tag) pairs
PlanOrderKeys(p, lists) ==
  {<<o.side, o.tag>> : o \in UNION {{l[i] : i \in DOMAIN l} : l \in lists}}

\* C8: the trading loop and the backtest loop add pending orders only as the
\* gate allows: grid, DCA and TP orders of the plan in RUN; DCA and TP orders of
\* the plan, never a grid-tagged one, in DEGRADED; none in PAUSED, under a hard
\* stop, or when no plan was computed.
C8_PlacedAsGateAllows ==
  mode \notin {"unit", "oversold"} =>
    LET keys == {<<placed[i].side, placed[i].tag>> : i \in DOMAIN placed}
    IN IF ~FreshPlan \/ plan.sl_action.stop \/ plan.pnl_gate_state = "PAUSED"
       THEN placed = <<>>
       ELSE IF plan.pnl_gate_state = "DEGRADED"
       THEN /\ keys \subseteq PlanOrderKeys(plan, {plan.dca_orders, plan.tp_orders})
            /\ \A i \in DOMAIN placed : ~IsGridTag(placed[i].tag)
       ELSE /\ plan.pnl_gate_state = "RUN"
            /\ keys \subseteq PlanOrderKeys(plan, {plan.grid_orders, plan.dca_orders,
                                                   plan.tp_orders})

\* the live loop placed the DCA order of a DEGRADED plan while grid orders of
\* an earlier RUN tick were pending
C8_Witness ==
  /\ mode \in {"paper", "testnet"}
  /\ FreshPlan
  /\ plan.pnl_gate_state = "DEGRADED"
  /\ placed # <<>>
  /\ \E i \in DOMAIN pending : IsGridTag(pending[i].tag)

\* C9, as stated: after a tick whose plan has kill_replace true, no grid-tagged
\* order placed before that tick is left, neither in the pending list nor, in
\* testnet, among the orders open on the exchange.
C9_KillReplaceCancelsGrid ==
  (mode \in {"paper", "testnet"} /\ FreshPlan /\ plan.kill_replace) =>
    /\ \A i \in DOMAIN pending :
         IsGridTag(pending[i].tag) => pending[i].timestamp = now
    /\ \A o \in exchange_orders : IsGridTag(o.tag) => o.timestamp = now

\* C10, as stated: the sweep removes every pending order older than
\* order_max_age_seconds before fills are reconciled, so that no such order is
\* pending after a tick and none is ever filled.
C10_StaleOrdersNeverFilled ==
  mode \in {"paper", "testnet"} =>
    /\ \A i \in DOMAIN fill_log : fill_log[i].age <= order_max_age_seconds
    /\ \A i \in DOMAIN pending : now - pending[i].timestamp <= order_max_age_seconds

\* the modes in which cash, positions and trades are those of a Portfolio
PortfolioModes == {"portfolio", "paper", "testnet"}

\* the value the open positions have at one price of the symbol: quantity x price
\* for a LONG position, quantity x (2 x entry_price - price) for a SHORT one
RECURSIVE ValueAtPrice(_, _, _)
ValueAtPrice(ps, price, keys) ==
  IF keys = {} THEN 0
  ELSE LET Add(k) ==
             (IF ps[k].side = "LONG" THEN ps[k].quantity * price
              ELSE ps[k].quantity * (2 * ps[k].entry_price - price))
               + ValueAtPrice(ps, price, keys \ {k})
       IN Add(CHOOSE k \in keys : TRUE)

\* C11: for prices keyed by symbol, get_equity(prices) is cash plus quantity x
\* price for every open LONG position plus quantity x (2 x entry_price - price)
\* for every open SHORT position
C11_EquityCountsPositions ==
  mode \in PortfolioModes =>
    \A p \in CallPrices :
      GetTotalValue(cash, positions, CurrentPrices(p))
        = cash + ValueAtPrice(positions, p, DOMAIN positions)

\* the sum of the PnL recorded in a trade history
RECURSIVE SumPnl(_, _)
SumPnl(th, i) == IF i > Len(th) THEN 0 ELSE th[i].pnl + SumPnl(th, i + 1)

\* the sum over the open positions of entry_price x quantity
RECURSIVE OpenCost(_, _)
OpenCost(ps, keys) ==
  IF keys = {} THEN 0
  ELSE LET Add(k) == ps[k].entry_price * ps[k].quantity + OpenCost(ps, keys \ {k})
       IN Add(CHOOSE k \in keys : TRUE)

\* a step that only appends to the trade history and leaves the books balanced
PnlMatchesCashStep ==
  mode \in PortfolioModes =>
    /\ Len(trades') >= Len(trades)
    /\ SubSeq(trades', 1, Len(trades)) = trades
    /\ SumPnl(trades', 1)
         = cash' - InitialCapital + OpenCost(positions', DOMAIN positions')

\* C12: over any sequence of open_position and close_position calls the trade
\* history only grows, and the recorded PnL sums to cash - initial_capital + the
\* entry cost of the open positions
C12_PnlMatchesCash ==
  [][PnlMatchesCashStep]_vars

\* this step is a direct open_position call
OpenCalled == mode = "portfolio" /\ nbars' = nbars + 1 /\ call'.op = "open"

\* the position a successful open_position call creates
OpenedPosition(c) ==
  [symbol |-> c.symbol, side |-> c.side, quantity |-> c.quantity,
   entry_price |-> c.price, strategy |-> c.strategy]

\* what an open_position call does to the books
OpenChecksCashAndKeyStep ==
  OpenCalled =>
    IF call'.price * call'.quantity > cash
       \/ PositionKey(call'.symbol, call'.strategy) \in DOMAIN positions
    THEN ~call'.ok /\ cash' = cash /\ positions' = positions /\ trades' = trades
    ELSE /\ call'.ok
         /\ cash' = cash - call'.price * call'.quantity
         /\ positions' = PutKey(positions, PositionKey(call'.symbol, call'.strategy),
                                OpenedPosition(call'))
         /\ trades' = trades

\* C13: open_position returns false and changes nothing when entry_price x
\* quantity exceeds cash or the key already holds a position; otherwise it
\* returns true, adds the position and debits cash by entry_price x quantity
C13_OpenChecksCashAndKey == [][OpenChecksCashAndKeyStep]_vars

\* an open_position call refused for lack of cash while its key was free, after
\* an earlier call was refused or accepted on the other key
C13_Witness ==
  /\ call.op = "open"
  /\ ~call.ok
  /\ PositionKey(call.symbol, call.strategy) \notin DOMAIN positions
  /\ DOMAIN positions # {}

\* this step is a direct close_position call on a key that holds a position
CloseCalled ==
  /\ mode = "portfolio"
  /\ nbars' = nbars + 1
  /\ call'.op = "close"
  /\ PositionKey(call'.symbol, call'.strategy) \in DOMAIN positions

\* the quantity the claim wants closed: the position's when the argument is
\* omitted or larger, the requested one otherwise
ClosedQuantity(position, quantity) ==
  IF quantity = None \/ quantity > position.quantity
  THEN position.quantity ELSE quantity

\* what a close_position call of quantity q on the position at key k does
CloseEffect(k, q) ==
  /\ cash' = cash + call'.price * q
  /\ Len(trades') = Len(trades) + 1
  /\ SubSeq(trades', 1, Len(trades)) = trades
  /\ trades'[Len(trades')].quantity = q
  /\ (k \notin DOMAIN positions') <=> (q = positions[k].quantity)
  /\ k \in DOMAIN positions' =>
       positions'[k] = [positions[k] EXCEPT !.quantity = @ - q]
  /\ \A o \in DOMAIN positions \ {k} :
       o \in DOMAIN positions' /\ positions'[o] = positions[o]

CloseFullOrRequestedStep ==
  CloseCalled =>
    CloseEffect(PositionKey(call'.symbol, call'.strategy),
                ClosedQuantity(positions[PositionKey(call'.symbol, call'.strategy)],
                               call'.quantity))

\* C14: close_position closes the whole position when the quantity is omitted or
\* exceeds the position's and exactly the requested quantity otherwise; cash is
\* credited by exit_price x closed quantity, one trade record is appended, and
\* the key leaves positions iff the close was full
C14_CloseFullOrRequested == [][CloseFullOrRequestedStep]_vars

\* a close_position call that asked for less than the position held: the key
\* is still there, with the remainder
C14_Witness ==
  /\ call.op = "close"
  /\ call.ok
  /\ call.quantity # None
  /\ PositionKey(call.symbol, call.strategy) \in DOMAIN positions
  /\ trades # <<>>
  /\ trades[Len(trades)].quantity = call.quantity

\* the quantity held under key k of a positions map of the given mode
HeldQuantity(ps, k) ==
  IF mode \in {"backtest", "fills"} THEN ps[k].qty ELSE ps[k].quantity

\* every position sits under the key of its own symbol and strategy
OnePositionPerKey ==
  /\ mode \in PortfolioModes =>
       \A k \in DOMAIN positions :
         k = PositionKey(positions[k].symbol, positions[k].strategy)
  /\ mode \in {"backtest", "fills"} => DOMAIN positions \subseteq {Symbol}

\* a BUY order was filled during this step: in the backtest one of the orders
\* pending at _check_fills or the one _fill_order was handed, in paper mode one
\* written to the fill log
BuyFilled ==
  \/ mode = "fills" /\ nbars' = nbars + 1 /\ call'.side = "BUY"
  \/ /\ mode = "backtest"
     /\ \E o \in {(BtKept(pending, plan') \o placed')[i] :
                    i \in 1..(Len(BtKept(pending, plan')) + Len(placed'))} :
          o.side = "BUY" /\ BtFilled(o, bar')
  \/ /\ mode = "paper"
     /\ \E i \in (Len(fill_log) + 1)..Len(fill_log') : fill_log'[i].side = "BUY"

QuantityGrowsOnBuyFillOnlyStep ==
  /\ OnePositionPerKey'
  /\ \A k \in DOMAIN positions \cap DOMAIN positions' :
       HeldQuantity(positions', k) > HeldQuantity(positions, k) =>
         BuyFilled /\ positions'[k].side = "LONG"

\* C15: there is at most one position per (symbol, strategy) key, and a
\* position's quantity never increases except when a BUY fill adds to a LONG
\* position
C15_QuantityGrowsOnBuyFillOnly == [][QuantityGrowsOnBuyFillOnlyStep]_vars

\* a backtest position that holds more than one order's worth (1% of equity per
\* order): a BUY fill has added to it
C15_Witness ==
  /\ mode = "backtest"
  /\ Symbol \in DOMAIN positions
  /\ positions[Symbol].side = "LONG"
  /\ positions[Symbol].qty * positions[Symbol].entry_price
       > InitialCapital \div 100 + InitialCapital \div 200

\* C16: cash is never negative, in the Portfolio and in the backtester's ledger
C16_CashNeverNegative == cash >= 0

\* this step closes, fully and at the entry price, the position that the call
\* before it opened
ClosedRightAfterOpen ==
  /\ mode = "portfolio"
  /\ call.op = "open"
  /\ call.ok
  /\ nbars' = nbars + 1
  /\ call'.op = "close"
  /\ call'.strategy = call.strategy
  /\ call'.symbol = call.symbol
  /\ call'.price = call.price
  /\ (call'.quantity = None \/ call'.quantity >= call.quantity)

OpenCloseRoundTripStep ==
  ClosedRightAfterOpen =>
    /\ call'.ok
    /\ call'.pnl = 0
    /\ trades'[Len(trades')].pnl = 0
    /\ cash' = call.cash_before
    /\ PositionKey(call.symbol, call.strategy) \notin DOMAIN positions'

RunBar ==
  /\ OnBarCalled
  /\ sig'.avail
  /\ ~plan'.sl_action.stop
  /\ plan'.pnl_gate_state = "RUN"
  /\ grid_enabled

\* |ref - last| / last x 100 > grid_kill_replace_threshold_pct, for a last
\* reference price that exists
DriftExceeds(last, ref) ==
  /\ last # None
  /\ Abs(ref - last) * 100 > grid_kill_replace_threshold_pct * last

\* a full grid around ref: grid_levels_per_side BUY orders below it and as many
\* SELL orders above it, level i at i spreads from ref
FullGridAround(orders, ref, spread_pct) ==
  /\ Len(orders) = 2 * grid_levels_per_side
  /\ \A i \in 1..grid_levels_per_side :
       /\ \E k \in DOMAIN orders :
            /\ orders[k].side = "BUY"
            /\ orders[k].price = GridBuyPrice(ref, spread_pct, i)
            /\ orders[k].price < ref
       /\ \E k \in DOMAIN orders :
            /\ orders[k].side = "SELL"
            /\ orders[k].price = GridSellPrice(ref, spread_pct, i)
            /\ orders[k].price > ref

KillReplaceOnDriftStep ==
  RunBar =>
    /\ plan'.kill_replace <=> DriftExceeds(eng.last_grid_ref_price, bar'.close)
    /\ plan'.kill_replace =>
         FullGridAround(plan'.grid_orders, bar'.close, plan'.spread_pct)

\* C18: on a RUN bar with the grid enabled kill_replace is true iff a
\* last_grid_ref_price exists and the drift from it is strictly above
\* grid_kill_replace_threshold_pct; when true a full new grid centred on the
\* bar's reference price is emitted, cooldown or not
C18_KillReplaceOnDrift == [][KillReplaceOnDriftStep]_vars

\* a replacement grid emitted less than grid_min_seconds_between after the run
\* began, hence after the grid it replaces
C18_Witness ==
  /\ FreshPlan
  /\ plan.kill_replace
  /\ Len(plan.grid_orders) = 2 * grid_levels_per_side
  /\ eng.last_grid_timestamp = now
  /\ now - StartTime < grid_min_seconds_between

\* this step is an on_bar call whose plan emits a grid or replaces one
GridEmittedOrReplaced ==
  OnBarCalled /\ (plan'.grid_orders # <<>> \/ plan'.kill_replace)

\* this step is a RUN bar that does not replace the grid and comes less than
\* grid_min_seconds_between after last_grid_timestamp
GridHeldBack ==
  /\ RunBar
  /\ ~DriftExceeds(eng.last_grid_ref_price, bar'.close)
  /\ eng.last_grid_timestamp # None
  /\ bar'.timestamp - eng.last_grid_timestamp < grid_min_seconds_between

GridCooldownFrameStep ==
  /\ GridHeldBack => plan'.grid_orders = <<>> /\ ~plan'.kill_replace
  /\ IF GridEmittedOrReplaced
     THEN /\ eng'.last_grid_ref_price = bar'.close
          /\ eng'.last_grid_timestamp = bar'.timestamp
     ELSE /\ eng'.last_grid_ref_price = eng.last_grid_ref_price
          /\ eng'.last_grid_timestamp = eng.last_grid_timestamp

\* C19: a bar that does not replace the grid and comes less than
\* grid_min_seconds_between after last_grid_timestamp emits no grid order and
\* leaves last_grid_ref_price and last_grid_timestamp alone; the two fields
\* become (ref, bar.ts) exactly on the bars that emit or replace a grid
C19_GridCooldownFrame == [][GridCooldownFrameStep]_vars

\* a RUN plan without a grid, held back by the cooldown of a grid emitted on an
\* earlier bar
C19_Witness ==
  /\ FreshPlan
  /\ sig.avail
  /\ plan.pnl_gate_state = "RUN"
  /\ ~plan.sl_action.stop
  /\ plan.grid_orders = <<>>
  /\ eng.last_grid_timestamp # None
  /\ eng.last_grid_timestamp < now
  /\ now - eng.last_grid_timestamp < grid_min_seconds_between

\* this step is an on_bar call that ended in a RUN or DEGRADED plan, with DCA
\* enabled
DcaBar ==
  /\ OnBarCalled
  /\ sig'.avail
  /\ ~plan'.sl_action.stop
  /\ plan'.pnl_gate_state \in {"RUN", "DEGRADED"}
  /\ dca_enabled

\* the four conditions of a DCA emission, on the engine state before the bar
DcaDue(e, ref, s, ts) ==
  /\ s.rsi < dca_rsi_threshold
  /\ dca_use_ema_gate => ref < s.ema_fast
  /\ e.last_dca_timestamp # None =>
       ts - e.last_dca_timestamp >= dca_cooldown_bars * bar_seconds
  /\ e.last_dca_fill_price # None =>
       Abs(ref - e.last_dca_fill_price) * 100
         >= dca_min_distance_from_last_fill_pct * e.last_dca_fill_price

DcaWhenDueStep ==
  DcaBar =>
    /\ plan'.dca_orders # <<>> <=> DcaDue(eng, bar'.close, sig', bar'.timestamp)
    /\ IF plan'.dca_orders # <<>>
       THEN /\ Len(plan'.dca_orders) = 1
            /\ plan'.dca_orders[1].side = "BUY"
            /\ plan'.dca_orders[1].price
                 = (bar'.close * (1000 - dca_price_offset_pct)) \div 1000
            /\ eng'.last_dca_timestamp = bar'.timestamp
            /\ eng.last_dca_timestamp # None =>
                 bar'.timestamp - eng.last_dca_timestamp
                   >= dca_cooldown_bars * bar_seconds
       ELSE eng'.last_dca_timestamp = eng.last_dca_timestamp

\* C20: on a RUN or DEGRADED bar a DCA order is emitted iff rsi is below
\* dca_rsi_threshold, ref is below ema_fast (EMA gate on), dca_cooldown_bars bars
\* have passed since the last emission and ref is dca_min_distance_from_last_fill_pct
\* away from the last notified fill; an emission is one BUY at ref less the price
\* offset and sets last_dca_timestamp to the bar's timestamp
C20_DcaWhenDue == [][DcaWhenDueStep]_vars

\* a second DCA emission in the oversold scenario: the fill of an earlier DCA
\* order was notified, and the plan of this bar carries a DCA order again, the
\* cooldown and the distance from that fill both passed
C20_Witness ==
  /\ mode = "oversold"
  /\ FreshPlan
  /\ Len(plan.dca_orders) = 1
  /\ eng.last_dca_timestamp = now
  /\ eng.last_dca_fill_price # None
  /\ eng.last_dca_fill_price # plan.dca_orders[1].price

\* this step is the on_bar call at which auto-resume clears a latched hard stop
ResumeBar == eng.hard_stop_active /\ OnBarCalled /\ ~eng'.hard_stop_active

ResumeBarNoOrdersStep ==
  ResumeBar => /\ plan'.grid_orders = <<>>
               /\ plan'.dca_orders = <<>>
               /\ plan'.tp_orders = <<>>

\* C21, as stated: on the bar at which auto-resume clears the hard stop the plan
\* contains no grid, DCA or TP orders; orders come at the earliest on the
\* following bar.
C21_ResumeBarNoOrders == [][ResumeBarNoOrdersStep]_vars

\* the pending orders that _check_fills of the live loop filled during this step
FilledNow ==
  {i \in DOMAIN pending :
     \E j \in (Len(fill_log) + 1)..Len(fill_log') :
       /\ fill_log'[j].order_id = pending[i].order_id
       /\ fill_log'[j].side = pending[i].side
       /\ fill_log'[j].price = pending[i].price}

RECURSIVE SumQty(_, _)
SumQty(po, is) ==
  IF is = {} THEN 0
  ELSE LET i == CHOOSE x \in is : TRUE IN po[i].qty + SumQty(po, is \ {i})

RECURSIVE SumCost(_, _)
SumCost(po, is) ==
  IF is = {} THEN 0
  ELSE LET i == CHOOSE x \in is : TRUE
       IN po[i].qty * po[i].price + SumCost(po, is \ {i})

\* a LONG position of quantity q whose entry price is the average that spent
\* cost, up to the rounding of n averaging steps
AveragedLong(q, entry_price, side, cost, n) ==
  /\ side = "LONG"
  /\ Abs(entry_price * q - cost) <= q * n

\* the live loop: the BUY orders filled in a tick are all in the Hybrid position
LiveBuyFillsAddUp ==
  (mode = "paper" /\ FilledNow # {} /\ \A i \in FilledNow : pending[i].side = "BUY") =>
    LET k  == PositionKey(Symbol, "Hybrid")
        q1 == IF k \in DOMAIN positions THEN positions[k].quantity ELSE 0
        c1 == IF k \in DOMAIN positions
              THEN positions[k].quantity * positions[k].entry_price ELSE 0
    IN /\ k \in DOMAIN positions'
       /\ positions'[k].quantity = q1 + SumQty(pending, FilledNow)
       /\ AveragedLong(positions'[k].quantity, positions'[k].entry_price,
                       positions'[k].side, c1 + SumCost(pending, FilledNow),
                       Cardinality(FilledNow))

\* the backtester: one BUY handed to _fill_order is in the position, at 1% of
\* the equity at the fill price
BtBuyFillAddsUp ==
  (mode = "fills" /\ nbars' = nbars + 1 /\ call'.side = "BUY") =>
    \E fill_price \in {call'.price} :
      LET q2 == (BtCalculateEquity(cash, positions, fill_price) \div 100) \div fill_price
          q1 == IF Symbol \in DOMAIN positions THEN positions[Symbol].qty ELSE 0
          c1 == IF Symbol \in DOMAIN positions
                THEN positions[Symbol].qty * positions[Symbol].entry_price ELSE 0
      IN /\ Symbol \in DOMAIN positions'
         /\ positions'[Symbol].qty = q1 + q2
         /\ AveragedLong(positions'[Symbol].qty, positions'[Symbol].entry_price,
                         positions'[Symbol].side, c1 + q2 * fill_price, 1)

BuyFillOpensOrAveragesStep == LiveBuyFillsAddUp /\ BtBuyFillAddsUp

\* C22, as stated: a BUY fill (q2, p2) opens a LONG position (q2, p2) when there
\* is no Hybrid position and averages a LONG position (q1, p1) up to q1+q2 at
\* (q1 x p1 + q2 x p2)/(q1+q2) when there is one; no BUY fill leaves the position
\* as it was.
C22_BuyFillOpensOrAverages == [][BuyFillOpensOrAveragesStep]_vars

\* the backtester's half of C22 alone
C22_BtBuyFillAverages == [][BtBuyFillAddsUp]_vars

\* the pending orders of the given side that the fill rule of the live
\* _check_fills selects in the tick of this step
DueNow(side) ==
  {i \in DOMAIN pending :
     pending[i].side = side /\ tick'.t2 # None /\ Filled(pending[i], tick'.t2)}

\* this step is a paper tick that reached _check_fills (nothing raised before
\* it) while a LONG Hybrid position was held, with SELL orders to fill and no BUY
LiveSellFill ==
  /\ mode = "paper"
  /\ nbars' = nbars + 1
  /\ tick'.t1 = None
  /\ PositionKey(Symbol, "Hybrid") \in DOMAIN positions
  /\ positions[PositionKey(Symbol, "Hybrid")].side = "LONG"
  /\ DueNow("SELL") # {}
  /\ DueNow("BUY") = {}

\* what every SELL fill of the claim brings about, whatever the quantities
LiveSellFillReduces ==
  LiveSellFill =>
    LET k == PositionKey(Symbol, "Hybrid")
    IN /\ Len(trades') > Len(trades)
       /\ cash' > cash
       /\ k \in DOMAIN positions' => positions'[k].quantity < positions[k].quantity
       /\ \A i \in DueNow("SELL") : \A j \in DOMAIN pending' : pending'[j] # pending[i]

\* this step is one SELL handed to the backtester's _fill_order while a LONG
\* position is held
BtSellFilled ==
  /\ mode = "fills"
  /\ nbars' = nbars + 1
  /\ call'.side = "SELL"
  /\ Symbol \in DOMAIN positions
  /\ positions[Symbol].side = "LONG"

BtSellFillReduces ==
  BtSellFilled =>
    LET p   == call'.price
        q2  == (BtCalculateEquity(cash, positions, p) \div 100) \div p
        pos == positions[Symbol]
    IN /\ Len(trades') = Len(trades) + 1
       /\ trades'[Len(trades')].exit_price = p
       /\ cash' > cash
       /\ IF q2 >= pos.qty
          THEN /\ Symbol \notin DOMAIN positions'
               /\ trades'[Len(trades')].qty = pos.qty
          ELSE /\ Symbol \in DOMAIN positions'
               /\ positions'[Symbol].qty = pos.qty - q2
               /\ trades'[Len(trades')].qty = q2
               /\ cash' = cash + q2 * p

SellFillReducesStep == LiveSellFillReduces /\ BtSellFillReduces

\* C23, as stated: on a SELL fill while a LONG Hybrid position is open the
\* position is reduced by the filled quantity (closed fully only when that
\* quantity is at least the position's), cash is credited and one trade record
\* is emitted.
C23_SellFillReduces == [][SellFillReducesStep]_vars

\* the backtester's half of C23 alone
C23_BtSellFillReduces == [][BtSellFillReduces]_vars

\* the backtester closed a part of its position: the trade is smaller than what
\* is still held
C23_BtPartialClose ==
  /\ mode = "fills"
  /\ call.side = "SELL"
  /\ Symbol \in DOMAIN positions
  /\ trades # <<>>

\* the number of fills of order o that log_fill wrote during this step
LoggedNow(o) ==
  Cardinality({j \in (Len(fill_log) + 1)..Len(fill_log') :
                 /\ fill_log'[j].order_id = o.order_id
                 /\ fill_log'[j].side = o.side
                 /\ fill_log'[j].price = o.price})

\* this step is a paper tick in which the ticker could be read
PaperTick == mode = "paper" /\ nbars' = nbars + 1 /\ tick'.t2 # None

\* the grid orders pending before this step were cancelled by a kill-replace
GridCancelledNow ==
  /\ sig'.avail
  /\ bar'.timestamp = now'
  /\ ~plan'.sl_action.stop
  /\ plan'.pnl_gate_state = "RUN"
  /\ plan'.kill_replace

\* a BUY order pending before the tick is filled iff the price is at or below
\* its own, once, and leaves the pending list
PaperBuyFillRule ==
  PaperTick =>
    \A i \in DOMAIN pending :
      (pending[i].side = "BUY" /\ ~(IsGridTag(pending[i].tag) /\ GridCancelledNow)) =>
        /\ LoggedNow(pending[i]) = (IF tick'.t2 <= pending[i].price THEN 1 ELSE 0)
        /\ LoggedNow(pending[i]) > 0 =>
             \A j \in DOMAIN pending' : pending'[j] # pending[i]

\* a SELL order is filled only if the price is at or above its own, and a SELL
\* order that closed the position has left the pending list
PaperSellFillRule ==
  PaperTick =>
    \A i \in DOMAIN pending :
      pending[i].side = "SELL" =>
        /\ LoggedNow(pending[i]) <= 1
        /\ LoggedNow(pending[i]) > 0 =>
             /\ tick'.t2 >= pending[i].price
             /\ \A j \in DOMAIN pending' : pending'[j] # pending[i]

PaperFillRuleStep == PaperBuyFillRule /\ PaperSellFillRule

\* C24, as stated: in paper mode a pending BUY fills in a tick iff current_price
\* <= order.price and a pending SELL iff current_price >= order.price, at the
\* order's own price; a filled order leaves the pending list in the same tick, so
\* no order is filled twice, also across ticks in which another order raises.
C24_PaperFillRule == [][PaperFillRuleStep]_vars

FilledOrderLeavesPendingStep ==
  PaperTick =>
    \A i \in DOMAIN pending :
      LoggedNow(pending[i]) > 0 => \A j \in DOMAIN pending' : pending'[j] # pending[i]

\* the second half of C24 alone: an order that was filled in a tick is no
\* longer pending after the tick
C24_FilledOrderLeavesPending == [][FilledOrderLeavesPendingStep]_vars


\* ---------------------------------------------------------------------------
\* the ledger of the backtester itself, in the shape the replay keeps
PrimaryLedger ==
  [eng |-> eng, cash |-> cash, positions |-> positions, trades |-> trades,
   pending |-> pending, hard_stop_logged |-> hard_stop_logged, plan |-> plan]

\* a trade record without the moment it was written
Unstamped(t) == [entry_price |-> t.entry_price, exit_price |-> t.exit_price,
                 qty |-> t.qty, tag |-> t.tag]

\* C25: two fresh backtesters fed the same bars and indicator bundles end
\* every bar with the same plan, the same engine state and the same ledger
\* (cash, positions, pending orders and trade records).
C25_ReplayIdentical == mode = "backtest" => replay = PrimaryLedger

\* C25, the part the code keeps: the plans, the engine state, the cash, the
\* positions and the pending orders of the two runs agree after every bar, and
\* so do the trade records once the moment of writing is left out.
C25_ReplayAgreesButStamps ==
  mode = "backtest" =>
    /\ replay.plan = plan
    /\ replay.eng = eng
    /\ replay.cash = cash
    /\ replay.positions = positions
    /\ replay.pending = pending
    /\ replay.hard_stop_logged = hard_stop_logged
    /\ Len(replay.trades) = Len(trades)
    /\ \A i \in 1..Len(trades) : Unstamped(replay.trades[i]) = Unstamped(trades[i])

\* C25: a hard stop has closed a position in both runs of the same bars
C25_StopTradeInBothRuns ==
  /\ mode = "backtest"
  /\ \E i \in 1..Len(trades) : trades[i].tag = Tag("hard_stop", 0, "")
  /\ Len(replay.trades) = Len(trades)

\* ---------------------------------------------------------------------------
\* C26: after a termination signal the final statistics and reports are
\* produced exactly once, and only once the loop has been left: never while
\* a tick is in progress or before the loop test that ends the run.
C26_ReportsOnceAfterLoop ==
  (mode = "bot" /\ bot.signal_pc # "none") =>
    /\ ~bot.report_in_tick
    /\ bot.reports <= 1
    /\ bot.reports = 1 => bot.pc = "done"

\* C26, the part the code keeps: a signal that arrives once run has set
\* running clears it for good, the tick in progress still ends in the sleep,
\* and no tick is entered afterwards.
C26_SignalEndsLoop ==
  (mode = "bot" /\ bot.signal_pc \in {"loop", "tick", "sleep"}) =>
    /\ ~bot.running
    /\ ~bot.started_after_stop
    /\ bot.pc = "done" => bot.reports >= 1

\* C26: the signal arrived while a tick was in progress and the run is over
C26_SignalDuringTick ==
  mode = "bot" /\ bot.signal_pc = "tick" /\ bot.report_in_tick /\ bot.pc = "done"

\* ---------------------------------------------------------------------------
\* the symbols for which some call to the exchange raised during the tick
Affected(f) == f.ticker \cup f.process \cup f.fills

\* a tick of the bot has run to its end
TickDone == mode = "bot" /\ bot.ticks > 0 /\ bot.pc # "tick"

\* C27: when the exchange fails for one symbol during a tick, every other
\* symbol is still processed, swept and reconciled in that tick.
C27_ErrorSkipsOneSymbol ==
  (TickDone /\ Cardinality(Affected(bot.failed)) = 1) =>
    \A s \in SymbolSet \ Affected(bot.failed) :
      s \in bot.processed /\ s \in bot.swept /\ s \in bot.reconciled

\* C27, the part the code keeps: the symbols the exchange did not fail for
\* are processed, a symbol without a price is neither processed nor swept,
\* and the tick ends in the sleep that precedes the next loop test.
C27_OthersProcessed ==
  TickDone =>
    /\ \A s \in SymbolSet \ Affected(bot.failed) : s \in bot.processed
    /\ \A s \in bot.failed.ticker : s \notin bot.processed /\ s \notin bot.swept
    /\ bot.pc \in {"sleep", "loop", "done"}

\* C27: the ticker of the first symbol failed in a tick, the second symbol
\* had no failure, and the loop went on to a further tick
C27_OneTickerFailed ==
  /\ TickDone
  /\ bot.failed = [NoFailures EXCEPT !.ticker = {Symbols[1]}]
  /\ Symbols[2] \in bot.processed
  /\ bot.ticks > 1

\* ---------------------------------------------------------------------------
\* the BUY fills written to the fill log
BuyFillsLogged == {i \in 1..Len(fill_log) : fill_log[i].side = "BUY"}

\* open_position was asked to open the (symbol, Hybrid) key while it was
\* held: a second BUY fill was handed to it and one position is there
DoubleOpenAttempted ==
  /\ mode = "paper"
  /\ Cardinality(BuyFillsLogged) >= 2
  /\ GetPosition(positions, Symbol, "Hybrid") # {}

DoubleOpenStopsLoopStep == DoubleOpenAttempted => nbars' = nbars

\* C28: once a double open on an existing (symbol, strategy) key has been
\* attempted, the trading loop starts no further tick.
C28_DoubleOpenStopsLoop == [][DoubleOpenStopsLoopStep]_vars

\* C28, what the code does instead: the refused open leaves the ledger with
\* the one position of the first fill and the cash that fill left.
C28_DoubleOpenRefused ==
  DoubleOpenAttempted =>
    LET first == fill_log[CHOOSE i \in BuyFillsLogged : \A k \in BuyFillsLogged : i <= k]
        p == positions[PositionKey(Symbol, "Hybrid")]
    IN /\ p.entry_price = first.price
       /\ cash = InitialCapital - p.quantity * p.entry_price

\* ---------------------------------------------------------------------------
\* the orders of the plan with this side and level
GridOrdersAt(side, kind, i) ==
  {k \in 1..Len(plan.grid_orders) :
     plan.grid_orders[k].side = side /\ plan.grid_orders[k].tag = Tag(kind, i, "")}

\* price is ref x (1 + sign x i x spread_pct / 100) cut to the cent, with
\* spread_pct in 1/1000 of a percent
PricedAt(price, ref, sign, i, spread_pct) ==
  /\ price * 100000 <= ref * (100000 + sign * i * spread_pct)
  /\ ref * (100000 + sign * i * spread_pct) < (price + 1) * 100000

\* C29: a grid emission has exactly grid_levels_per_side BUY and as many
\* SELL orders; level i is priced at ref x (1 -/+ i x spread_pct / 100) and
\* tagged grid_buy_i / grid_sell_i; every BUY is below ref, every SELL above,
\* and the prices move strictly away from ref as i grows.
C29_GridLadder ==
  plan.grid_orders # <<>> =>
    /\ Len(plan.grid_orders) = 2 * grid_levels_per_side
    /\ \A i \in 1..grid_levels_per_side :
         /\ Cardinality(GridOrdersAt("BUY", "grid_buy", i)) = 1
         /\ Cardinality(GridOrdersAt("SELL", "grid_sell", i)) = 1
         /\ \A k \in GridOrdersAt("BUY", "grid_buy", i) :
              /\ PricedAt(plan.grid_orders[k].price, plan.ref_price, -1, i,
                          plan.spread_pct)
              /\ plan.grid_orders[k].price < plan.ref_price
              /\ \A m \in GridOrdersAt("BUY", "grid_buy", i + 1) :
                   plan.grid_orders[m].price < plan.grid_orders[k].price
         /\ \A k \in GridOrdersAt("SELL", "grid_sell", i) :
              /\ PricedAt(plan.grid_orders[k].price, plan.ref_price, 1, i,
                          plan.spread_pct)
              /\ plan.grid_orders[k].price > plan.ref_price
              /\ \A m \in GridOrdersAt("SELL", "grid_sell", i + 1) :
                   plan.grid_orders[m].price > plan.grid_orders[k].price

\* C29: a grid was emitted around 92.00 on a bar of a direct caller
C29_Witness ==
  /\ mode = "unit"
  /\ plan.grid_orders # <<>>
  /\ plan.ref_price = 9200
  /\ plan.spread_pct > 0

\* ---------------------------------------------------------------------------
\* a tick of the live loop
LiveTicked == mode \in {"paper", "testnet"} /\ nbars' = nbars + 1

\* the bundle of this tick has an atr_pct above the one of the tick before
\* times order_volatility_spike_threshold
VolatilitySpike ==
  /\ sig.avail
  /\ sig'.avail
  /\ bar'.timestamp = now'
  /\ sig'.atr_pct * 10 > sig.atr_pct * order_volatility_spike_threshold

\* a grid order that was pending before the tick and is, at the tick, neither
\* over-age nor beyond the price-drift threshold
FreshGridOrders ==
  {k \in 1..Len(pending) :
     /\ IsGridTag(pending[k].tag)
     /\ now' - pending[k].timestamp <= order_max_age_seconds
     /\ Abs(bar'.close - pending[k].price) * 100
          <= order_price_drift_threshold_pct * pending[k].price}

SpikeCancelsGridStep ==
  (LiveTicked /\ VolatilitySpike) =>
    \A k \in FreshGridOrders : \A m \in 1..Len(pending') : pending'[m] # pending[k]

\* C30: on a tick whose atr_pct exceeds the previous tick's atr_pct times
\* order_volatility_spike_threshold, every pending grid order that is neither
\* over-age nor beyond the drift threshold is cancelled by the sweep.
C30_SpikeCancelsGrid == [][SpikeCancelsGridStep]_vars

SnapshotUpdatedStep ==
  (LiveTicked /\ bar'.timestamp = now') => bot'.last_atr_pct = CurrentAtrPct(sig')

\* C30: the atr_pct snapshot is the atr_pct of the tick after every tick's
\* sweep, whether or not an order was cancelled.
C30_SnapshotUpdated == [][SnapshotUpdatedStep]_vars

\* C30, what the code does instead: the sweep never gets to store the
\* snapshot, and every pending order has a positive price, so that the
\* if/elif chain of the sweep would stop at the drift test.
C30_SweepNeverStores ==
  mode \in {"paper", "testnet"} =>
    /\ bot.last_atr_pct = None
    /\ \A k \in 1..Len(pending) : pending[k].price > 0
\* ---------------------------------------------------------------------------
\* the orders that were placed on the tick before this one, whose bundle is
\* sig: their first evaluation by the sweep was on that tick
PlacedLastTick == {k \in 1..Len(pending) : pending[k].timestamp = bar.timestamp}

\* the rsi has reversed against an order of this side since the bundle sig
RsiTurned(side) ==
  /\ sig.avail
  /\ sig'.avail
  /\ bar'.timestamp = now'
  /\ Abs(sig'.rsi - sig.rsi) > order_rsi_reversal_threshold
  /\ IF side = "BUY" THEN sig.rsi < 40 /\ sig'.rsi > 60
     ELSE sig.rsi > 60 /\ sig'.rsi < 40

RsiReversalCancelsStep ==
  LiveTicked =>
    \A k \in PlacedLastTick :
      RsiTurned(pending[k].side) =>
        \A m \in 1..Len(pending') : pending'[m] # pending[k]

\* C31: an order first evaluated at rsi < 40 (BUY) or rsi > 60 (SELL) is
\* cancelled by the sweep of a later tick whose rsi is beyond 60 (below 40)
\* and differs by more than order_rsi_reversal_threshold.
C31_RsiReversalCancels == [][RsiReversalCancelsStep]_vars

InitialRsiRecordedStep ==
  (LiveTicked /\ bar'.timestamp = now') =>
    \A m \in 1..Len(pending') : pending'[m].initial_rsi # None

\* C31: the orders that survive a tick's sweep carry the initial_rsi of
\* their first evaluation.
C31_InitialRsiRecorded == [][InitialRsiRecordedStep]_vars

\* C31, what the code does instead: no pending order ever carries an
\* initial_rsi.
C31_InitialRsiNeverStored ==
  mode \in {"paper", "testnet"} =>
    \A k \in 1..Len(pending) : pending[k].initial_rsi = None

\* ---------------------------------------------------------------------------
\* the daily anchors of the engine
Anchors(e) == <<e.open_price_day, e.equity_open>>

\* the latest bar handed to on_bar before this step was of another date than
\* the bar of this step, or there was none
FirstBarOfDate == bar = NoBar \/ DateOf(bar.timestamp) # DateOf(bar'.timestamp)

AnchorsFromFirstBarStep ==
  OnBarCalled =>
    IF FirstBarOfDate
    THEN Anchors(eng') = <<bar'.close, equity'>>
    ELSE Anchors(eng') = Anchors(eng)

\* C32 as stated: the anchors are the close and the equity of the first bar
\* handed to on_bar on a date, and no later bar of that date changes them.
C32_AnchorsFromFirstBarAnyBar == [][AnchorsFromFirstBarStep]_vars

AnchorsFromFirstBundleBarStep ==
  IF OnBarCalled /\ sig'.avail
  THEN /\ eng'.last_date = DateOf(now')
       /\ IF eng.last_date # DateOf(now')
          THEN Anchors(eng') = <<bar'.close, equity'>>
          ELSE Anchors(eng') = Anchors(eng)
  ELSE eng'.last_date = eng.last_date /\ Anchors(eng') = Anchors(eng)

\* C32: last_date is the date of the latest bar that came with an indicator
\* bundle; the anchors are the close and the equity of the first such bar of
\* that date; later bars of the date, bars without a bundle and every other
\* step leave them alone, whether or not the hard stop is latched.
C32_AnchorsFromFirstBundleBar == [][AnchorsFromFirstBundleBarStep]_vars

\* C32: the stop is latched, the latest bar is a later bar of its date and
\* closed away from the anchor
C32_Witness ==
  /\ eng.hard_stop_active
  /\ sig.avail
  /\ bar.timestamp = now
  /\ eng.last_date = DateOf(now)
  /\ eng.open_price_day # bar.close
  /\ eng.hard_stop_timestamp < now

\* ---------------------------------------------------------------------------
\* _compute_band_and_spread has returned
SpreadComputed == mode = "spread" /\ call.op = "compute_band_and_spread"

\* C33: with dynamic spread on, the band is near / mid / far by atr_pct
\* against the two thresholds and the spread is the band's base spread times
\* 0.9 below rsi 30, times 1.1 above rsi 70 (when the RSI adjustment is on),
\* brought into [0.1, 2.0]; with dynamic spread off the result is exactly
\* (mid, fixed_spread_pct).  For the policy of the engine it is what
\* on_bar uses.
C33_BandAndSpread ==
  SpreadComputed =>
    /\ IF call.cfg.use_dynamic_spread
       THEN /\ call.band = "near" <=> call.signals.atr_pct < call.cfg.band_near_threshold
            /\ call.band = "far" <=> call.signals.atr_pct >= call.cfg.band_mid_threshold
            /\ call.band \in {"near", "mid", "far"}
            /\ call.spread_pct >= 100
            /\ call.spread_pct <= 2000
            /\ \E base \in {IF call.band = "near" THEN call.cfg.spread_near_pct
                            ELSE IF call.band = "mid" THEN call.cfg.spread_mid_pct
                            ELSE call.cfg.spread_far_pct} :
               \E adjusted \in {IF ~call.cfg.rsi_adjust_enabled THEN base
                                ELSE IF call.signals.rsi < 30
                                THEN (base * (1000 - call.cfg.rsi_adjust_factor)) \div 1000
                                ELSE IF call.signals.rsi > 70
                                THEN (base * (1000 + call.cfg.rsi_adjust_factor)) \div 1000
                                ELSE base} :
                 /\ (adjusted >= 100 /\ adjusted <= 2000) => call.spread_pct = adjusted
                 /\ adjusted < 100 => call.spread_pct = 100
                 /\ adjusted > 2000 => call.spread_pct = 2000
       ELSE call.band = "mid" /\ call.spread_pct = call.cfg.fixed_spread_pct
    /\ call.cfg = PolicyCfg =>
         ComputeBandAndSpread(call.signals) = [band |-> call.band,
                                               spread_pct |-> call.spread_pct]

\* C33: the adjusted spread of the far band was above 2.0 and came back as 2.0
C33_Witness ==
  /\ SpreadComputed
  /\ call.cfg.use_dynamic_spread
  /\ call.cfg.rsi_adjust_enabled
  /\ call.band = "far"
  /\ call.signals.rsi > 70
  /\ call.cfg.spread_far_pct = 1900
  /\ call.spread_pct = 2000

\* ---------------------------------------------------------------------------
\* the quantity of the traded pair held in a positions map
TotalHeld(ps) ==
  IF mode = "backtest"
  THEN IF Symbol \in DOMAIN ps THEN ps[Symbol].qty ELSE 0
  ELSE IF PositionKey(Symbol, "Hybrid") \in DOMAIN ps
       THEN ps[PositionKey(Symbol, "Hybrid")].quantity ELSE 0

\* the quantity held once the stop has acted: the backtester closes every
\* position on the bar that latches the stop
HeldAfterStop ==
  IF mode = "backtest" /\ ~eng.hard_stop_active THEN 0 ELSE TotalHeld(positions)

NoFillWhileLatchedStep ==
  (mode \in {"backtest", "paper"} /\ eng'.hard_stop_active) =>
    TotalHeld(positions') <= HeldAfterStop

\* C34: on the bar that latches the hard stop and on every bar until the
\* engine has resumed, no position is opened or increased: an order that was
\* pending when the stop triggered does not fill into a position.
C34_NoFillWhileLatched == [][NoFillWhileLatchedStep]_vars

NoFillWhileLatchedPaperStep ==
  (mode = "paper" /\ eng'.hard_stop_active) =>
    TotalHeld(positions') <= TotalHeld(positions)

\* C34 for the paper bot alone.
C34_NoFillWhileLatchedPaper == [][NoFillWhileLatchedPaperStep]_vars

\* ---------------------------------------------------------------------------
\* the orders that were tracked as pending before this step and are not after
LeftPending ==
  {k \in 1..Len(pending) : \A m \in 1..Len(pending') : pending'[m] # pending[k]}

TrackedUntilCancelledStep ==
  mode = "testnet" =>
    \A k \in LeftPending : pending[k] \notin exchange_orders'

\* C35: in testnet mode an order leaves the pending list only once it is no
\* longer open on the exchange (no fill is tracked in that mode): while the
\* exchange has not cancelled it, it stays pending.
C35_TrackedUntilCancelled == [][TrackedUntilCancelledStep]_vars

\* C35, the other direction, which the code keeps: every order the bot tracks
\* in testnet mode is open on the exchange.
C35_PendingAreOpen ==
  mode = "testnet" =>
    \A k \in 1..Len(pending) : pending[k] \in exchange_orders

\* ---------------------------------------------------------------------------
\* the pending orders that carry a grid tag
PendingGrid == {k \in 1..Len(pending) : IsGridTag(pending[k].tag)}

\* C36: the pending grid orders of the symbol are never more than
\* 2 x grid_levels_per_side: no grid is placed on top of an earlier one.
C36_OneGridPending ==
  mode \in {"backtest", "paper", "testnet"} =>
    Cardinality(PendingGrid) <= 2 * grid_levels_per_side

NewGridReplacesOnKillStep ==
  (mode \in {"backtest", "paper", "testnet"} /\ OnBarCalled /\ plan'.kill_replace) =>
    \A m \in 1..Len(pending') :
      IsGridTag(pending'[m].tag) => pending'[m].timestamp = now'

\* C36, the part the code keeps: after a bar whose plan carries kill_replace
\* the only grid orders pending are those placed on that bar.
C36_NewGridReplacesOnKill == [][NewGridReplacesOnKillStep]_vars

\* ---------------------------------------------------------------------------
HardStopFields(e) == <<e.hard_stop_timestamp, e.hard_stop_price, e.hard_stop_reason>>

\* on_bar is called on an engine whose stop is latched and cannot resume
StaysLatched ==
  /\ OnBarCalled
  /\ eng.hard_stop_active
  /\ ~(auto_resume_enabled /\ CanResume(eng, bar'.timestamp, bar'.close, sig'))

LatchedStopFrozenStep ==
  StaysLatched => /\ eng'.hard_stop_active
                  /\ HardStopFields(eng') = HardStopFields(eng)

\* C37: while the hard stop is latched and does not resume, on_bar leaves
\* hard_stop_timestamp, hard_stop_price and hard_stop_reason as they are,
\* also on a bar that breaches the hard-stop thresholds again.
C37_LatchedStopFrozen == [][LatchedStopFrozenStep]_vars

\* a bar that breaches the gap threshold again while the stop stays latched
C37_Witness ==
  /\ eng.hard_stop_active
  /\ sig.avail
  /\ bar.timestamp = now
  /\ eng.hard_stop_timestamp # None /\ eng.hard_stop_timestamp < now
  /\ plan.sl_action.stop
  /\ GapPctLe(eng, bar.close, hard_stop_gap_pct)

\* ---------------------------------------------------------------------------
\* on_bar was called by a caller that hands it the bar directly
DirectOnBar == mode \in {"unit", "oversold"} /\ OnBarCalled

\* on_bar was called with a bar without timestamp: its gate evaluation raises
\* whenever the bundle is complete
UnstampedCalled == mode = "unstamped" /\ call.op = "on_bar"

NoOrders(p) ==
  /\ p.grid_orders = <<>>
  /\ p.dca_orders = <<>>
  /\ p.tp_orders = <<>>
  /\ ~p.kill_replace

\* C38, when planning raises an error: on_bar returns a plan without orders
\* and without kill_replace and leaves the engine state as it was.
C38_FailSafePlan ==
  UnstampedCalled => NoOrders(call.plan) /\ call.eng = call.eng_before

NoBundleNoChangeStep ==
  (DirectOnBar /\ ~sig'.avail) =>
    /\ plan' = DefaultPlan(bar'.close)
    /\ eng' = eng

\* C38, the part the code keeps: without a complete bundle on_bar returns the
\* default plan and changes no engine state.
C38_NoBundleNoChange == [][NoBundleNoChangeStep]_vars

\* the same for a bar without timestamp
C38_NoBundleNoChangeUnstamped ==
  (UnstampedCalled /\ ~call.signals.avail) =>
    /\ call.plan = DefaultPlan(call.bar.close)
    /\ call.eng = call.eng_before

\* ---------------------------------------------------------------------------
\* C39: a circuit breaker that was activated is deactivated again once its
\* duration has elapsed: it never stays active forever.
C39_BreakerEventuallyReleased ==
  [](risk.circuit_breaker_active => <>(~risk.circuit_breaker_active))

ExpiredBreakerReleasedStep ==
  (/\ mode = "breaker"
   /\ risk.circuit_breaker_active
   /\ risk'.parity # risk.parity
   /\ now' >= risk.circuit_breaker_until) =>
     ~risk'.circuit_breaker_active

\* C39 as a statement about one pass: a pass of the loop made after the
\* duration has elapsed leaves the breaker deactivated.
C39_ExpiredBreakerReleased == [][ExpiredBreakerReleasedStep]_vars

NoEntryWhileActiveStep ==
  risk.circuit_breaker_active =>
    /\ risk'.entries = risk.entries
    /\ risk'.open = risk.open

\* C39, the part the code keeps: while the breaker is active no entry is
\* executed.
C39_NoEntryWhileActive == [][NoEntryWhileActiveStep]_vars

BreakerStaysStep ==
  risk.circuit_breaker_active =>
    /\ risk'.circuit_breaker_active
    /\ risk'.circuit_breaker_until = risk.circuit_breaker_until
    /\ risk'.signals = 0

\* C39, what the code does instead: once active the breaker stays active and
\* no pass produces a signal, exits included.
C39_BreakerStays == [][BreakerStaysStep]_vars

\* the breaker is still active a day after its duration has run out
C39_ExpiredAndActive ==
  /\ risk.circuit_breaker_active
  /\ now >= risk.circuit_breaker_until + SecondsPerDay
=============================================================================
